---- MODULE Spec2Model ----
(***************************************************************************)
(* nsjail: subprocess lifecycle engine (src/subproc.cc) and the cgroup v2  *)
(* per-child layer (src/cgroup2.cc).                                       *)
(*                                                                         *)
(* The supervisor is single-threaded: it runs one of runChild (cloned      *)
(* mode), reapProc(nsjconf) (a drain pass followed by the timeout sweep)   *)
(* or killAndReapAll(SIGKILL) at a time.  Concurrency comes from the       *)
(* children, whose bootstrap steps (newProc) interleave with the           *)
(* supervisor's steps.  use_cgroupv2 is taken as true.                     *)
(***************************************************************************)
EXTENDS Integers, Sequences, FiniteSets, TLC

\* ------------------------------------------------------------------ bounds
MaxPid == 2        \* number of PIDs the kernel hands out in one behaviour
MaxTime == 1       \* the clock runs from 0 to MaxTime seconds
WordBits == 6      \* width of size_t/ssize_t in the scaled-down arithmetic

MaxSetupCalls == 2 \* number of calls of cgroup2::setup in one behaviour
MaxSysExeCalls == 2 \* number of calls of systemExe in one behaviour
MaxCloneCalls == 2 \* number of calls of cloneProc in one behaviour

PIDs == 1..MaxPid
SizeMod == 2 ^ WordBits
UIntBits == 20      \* width of unsigned int, scaled down from 32
LLongBits == 8      \* width of long long, scaled down from 64
UIntMod == 2 ^ UIntBits
LLONG_MAX == 2 ^ (LLongBits - 1) - 1
LLONG_MIN == -(2 ^ (LLongBits - 1))

\* ------------------------------------------------------- program constants
kSubprocDoneChar == "D"
kSubprocErrorChar == "E"
SIGKILL == 9
SIGPIPE == 13
SIGCONT == 18
SIGSYS == 31
SIGXCPU == 24
FatalExitCode == 255
SUBTREE_CONTROL_BUF_LEN == 64

\* ----------------------------------------------------------- configuration
\* nsjconf fields read by the modelled code; immutable after construction.
nsjconf(mem, swap, pidsMax, tl) ==
  [ cgroup_mem_max        |-> mem,
    cgroup_mem_swap_max   |-> swap,
    cgroup_mem_memsw_max  |-> 0,
    cgroup_pids_max       |-> pidsMax,
    cgroup_cpu_ms_per_sec |-> 0,
    tlimit                |-> tl ]

\* No limit at all (with and without a time limit), memory only, swap only,
\* memory and swap, pids only, and all three.
Configs ==
  { nsjconf(0, -1, 0, 0), nsjconf(0, -1, 0, 1), nsjconf(1, -1, 0, 1),
    nsjconf(0, 0, 0, 1), nsjconf(1, 0, 0, 1), nsjconf(0, -1, 1, 1),
    nsjconf(1, 0, 1, 1) }

\* A configuration with every cgroup limit given; no time limit.
limits(mem, swap, memsw, pidsMax, cpu) ==
  [ nsjconf(mem, swap, pidsMax, 0) EXCEPT !.cgroup_mem_memsw_max = memsw,
                                          !.cgroup_cpu_ms_per_sec = cpu ]

\* The limits cgroup2::initNsFromParent is run with: caps of 0, small ones,
\* and ones at the ends of the fields' ranges.
LimitConfigs ==
  { limits(mem, swap, memsw, pidsMax, cpu) :
      mem \in {0, 1, 20, SizeMod \div 2 + 10, SizeMod - 1},
      swap \in {-1, 0, 7},
      memsw \in {0, 5, 20, SizeMod - 1},
      pidsMax \in {0, 1},
      cpu \in {0, 1, 500, UIntMod \div 1000, UIntMod \div 1000 + 1,
               UIntMod - 1} }

\* The configurations cgroup2::setup is run with.
SetupConfigs ==
  { limits(mem, swap, 0, pidsMax, cpu) :
      mem \in {0, 1}, swap \in {-1, 0}, pidsMax \in {0, 1}, cpu \in {0, 1} }

VARIABLES
  conf,     \* nsjconf (limits and tlimit)
  subtree,  \* cgroup fs: controllers listed in <mount>/cgroup.subtree_control
  setupSt,  \* cgroup2::setup: its position, locals and what it has done
  files,    \* cgroup fs: bytes written to the files of one NSJAIL.<pid>
  pc,       \* position of the supervisor
  mode,     \* operation the supervisor is in or has last returned from
  cur,      \* runChild: pid returned by cloneProc; reapProc: si_pid / pid
  rv,       \* reapProc(nsjconf): local rv
  ret,      \* value returned by the last finished operation
  lastFail, \* which step made the last runChild fail ("none" if it did not)
  rcv,      \* runChild: outcome of the read on parent_fd
  sv,       \* runChild: the supervisor's two socketpair descriptors
  nextPid,  \* kernel: next PID to hand out
  now,      \* kernel: time(NULL)
  child,    \* kernel: per-PID process state
  chan,     \* kernel: per-PID handshake socketpair
  fd,       \* kernel: state of the supervisor's /proc/<pid>/syscall descriptor
  cg,       \* cgroup fs: per-PID directory NSJAIL.<pid> and what touched it
  sigs,     \* signals the supervisor has sent to each PID, in order
  pids,     \* nsjconf->pids: the registry
  diag,     \* set of PIDs for which seccompViolation read the accounting FD
  status,   \* reapProc(pid): the status wait4 stored last in this operation
  cpuCls,   \* reapProc(pid): one child's stored CPU limit, usage and log line
  stats,    \* removeCgroup: the accounting files read and the values logged
  sysExe,   \* systemExe: the helper process and the caller's position
  cloneSt   \* cloneProc: the attempts made and their results

\* The state of the functions that are followed on their own.
auxVars == << cpuCls, stats, sysExe, cloneSt >>

vars == << conf, subtree, setupSt, files, auxVars, pc, mode, cur, rv, ret, lastFail, rcv, sv, nextPid, now,
           child, chan, fd, cg, sigs, pids, diag, status >>

\* ------------------------------------------------------------------ helpers
NoStatus == [kind |-> "none", val |-> 0]
Exited(c) == [kind |-> "exited", val |-> c]
Signaled(s) == [kind |-> "signaled", val |-> s]

\* Child positions in newProc (cloned mode), in program order.
BootPcs == {"setupFD", "resetEnv", "readDone", "containProc", "env",
            "applyPolicy", "exec", "sendErr", "fatal"}
LivePcs == BootPcs \cup {"running"}

IsLive(p) == child[p].pc \in LivePcs
IsZombie(p) == child[p].pc = "zombie"

\* ------------------------------------------------------------ cgroup2.cc
\* initNsFromParentMem: derived swap_max (ssize_t of a size_t difference).
derivedSwapMax(c) ==
  IF c.cgroup_mem_memsw_max > 0
  THEN LET d == (c.cgroup_mem_memsw_max - c.cgroup_mem_max) % SizeMod
       IN  IF d >= SizeMod \div 2 THEN d - SizeMod ELSE d
  ELSE c.cgroup_mem_swap_max

\* A faulty initNsFromParentMem that takes a swap limit of 0 for "no limit"
\* (C18 must notice it).
initNsFromParentMem_skipZero(c) ==
  IF c.cgroup_mem_max = 0 /\ derivedSwapMax(c) <= 0
  THEN << >>
  ELSE << "mkdir", "cgroup.procs" >>
       \o (IF c.cgroup_mem_max > 0 THEN << "memory.max" >> ELSE << >>)
       \o (IF derivedSwapMax(c) > 0 THEN << "memory.swap.max" >> ELSE << >>)

\* The file operations of initNsFromParentMem, in order.
initNsFromParentMem(c) ==
  IF c.cgroup_mem_max = 0 /\ derivedSwapMax(c) < 0
  THEN << >>
  ELSE << "mkdir", "cgroup.procs" >>
       \o (IF c.cgroup_mem_max > 0 THEN << "memory.max" >> ELSE << >>)
       \o (IF derivedSwapMax(c) >= 0 THEN << "memory.swap.max" >> ELSE << >>)

\* A faulty initNsFromParentPids that does not put the child into the cgroup
\* (C25 must notice it).
initNsFromParentPids_noProcs(c) ==
  IF c.cgroup_pids_max = 0
  THEN << >>
  ELSE << "mkdir", "pids.max" >>

initNsFromParentPids(c) ==
  IF c.cgroup_pids_max = 0
  THEN << >>
  ELSE << "mkdir", "cgroup.procs", "pids.max" >>

initNsFromParentCpu(c) ==
  IF c.cgroup_cpu_ms_per_sec = 0
  THEN << >>
  ELSE << "mkdir", "cgroup.procs", "cpu.max" >>

\* initNsFromParent: Mem, then Pids, then Cpu; the first failure stops it.
initNsFromParent(c) ==
  initNsFromParentMem(c) \o initNsFromParentPids(c) \o initNsFromParentCpu(c)

\* finishFromParent: the condition under which removeCgroup is called.
finishFromParent(c) ==
  c.cgroup_mem_max # 0 \/ c.cgroup_pids_max # 0 \/ c.cgroup_cpu_ms_per_sec # 0

NoCgroup == [created |-> FALSE, ops |-> << >>,
             statsRead |-> FALSE, rmdir |-> FALSE]

\* State of NSJAIL.<pid> after the first k operations of ops succeeded.
cgroupAfter(ops, k) ==
  [ created   |-> \E i \in 1..k : ops[i] = "mkdir",
    ops       |-> SubSeq(ops, 1, k),
    statsRead |-> FALSE,
    rmdir     |-> FALSE ]

\* std::to_string of an integer: its decimal digits, most significant first.
Digit(d) == << "0", "1", "2", "3", "4", "5", "6", "7", "8", "9" >>[d + 1]

RECURSIVE to_string(_)
to_string(n) ==
  IF n < 0 THEN << "-" >> \o to_string(-n)
  ELSE IF n < 10 THEN << Digit(n) >>
  ELSE to_string(n \div 10) \o << Digit(n % 10) >>

\* initNsFromParentCpu lines 461-462: unsigned int arithmetic, then the period.
cpuMax(c) ==
  to_string((c.cgroup_cpu_ms_per_sec * 1000) % UIntMod)
  \o << " ", "1", "0", "0", "0", "0", "0", "0" >>

\* The bytes writeToCgroup (value.length() of them) or addPidToProcList
\* writes for one file operation of initNsFromParent; mkdir writes none.
valueWritten(c, pid, op) ==
  CASE op = "mkdir"           -> << >>
    [] op = "cgroup.procs"    -> to_string(pid)
    [] op = "memory.max"      -> to_string(c.cgroup_mem_max)
    [] op = "memory.swap.max" -> to_string(derivedSwapMax(c))
    [] op = "pids.max"        -> to_string(c.cgroup_pids_max)
    [] op = "cpu.max"         -> cpuMax(c)

\* isspace and isdigit in the C locale.
isspace(ch) == ch \in {" ", "\t", "\n", "\r", "\f"}
isdigit(ch) == \E d \in 0..9 : Digit(d) = ch
digitVal(ch) == CHOOSE d \in 0..9 : Digit(d) = ch

RECURSIVE skipSpace(_, _)
skipSpace(b, i) ==
  IF i <= Len(b) /\ isspace(b[i]) THEN skipSpace(b, i + 1) ELSE i

\* The digits of b from position i: where they end, their value, and
\* whether the value went over limit.
RECURSIVE digitsFrom(_, _, _, _, _)
digitsFrom(b, i, acc, over, limit) ==
  IF i <= Len(b) /\ isdigit(b[i])
  THEN LET n == acc * 10 + digitVal(b[i])
       IN  IF over \/ n > limit
           THEN digitsFrom(b, i + 1, acc, TRUE, limit)
           ELSE digitsFrom(b, i + 1, n, FALSE, limit)
  ELSE [end |-> i, mag |-> acc, over |-> over]

\* strtoll(b, &endptr, 10): white space, an optional sign, digits.  endptr is
\* the position of the first byte not converted (1: nothing was); out of
\* range gives LLONG_MAX or LLONG_MIN and errno = ERANGE.
strtoll(b) ==
  LET i   == skipSpace(b, 1)
      neg == i <= Len(b) /\ b[i] = "-"
      j   == IF i <= Len(b) /\ b[i] \in {"-", "+"} THEN i + 1 ELSE i
      r   == digitsFrom(b, j, 0, FALSE,
                        IF neg THEN LLONG_MAX + 1 ELSE LLONG_MAX)
  IN  IF r.end = j
      THEN [val |-> 0, endptr |-> 1, erange |-> FALSE]
      ELSE IF r.over
      THEN [val |-> IF neg THEN LLONG_MIN ELSE LLONG_MAX,
            endptr |-> r.end, erange |-> TRUE]
      ELSE [val |-> IF neg THEN -r.mag ELSE r.mag,
            endptr |-> r.end, erange |-> FALSE]

\* fgets(buf, size, fp) on what is left of a file: the bytes up to and with
\* the first newline, size - 1 at most; nothing at end of file.
fgets(rest, size) ==
  LET nl == {i \in 1..Len(rest) : rest[i] = "\n"}
      n  == IF nl = {} THEN Len(rest)
            ELSE CHOOSE i \in nl : \A k \in nl : i <= k
  IN  SubSeq(rest, 1, IF n > size - 1 THEN size - 1 ELSE n)

\* removeCgroup lines 136-166, 193-228, 234-264: the checks after strtoll.
\* onRange is what the caller stores when errno is ERANGE.
parseStat(buf, onRange) ==
  LET r == strtoll(buf)
  IN  IF r.erange THEN onRange
      ELSE IF r.endptr = 1 THEN -1
      ELSE IF skipSpace(buf, r.endptr) <= Len(buf) THEN -1
      ELSE IF r.val < 0 THEN -1
      ELSE r.val

\* removeCgroup lines 130-183: memory_peak_bytes from the content of
\* memory.peak (the file could be opened).
readMemoryPeak(content) ==
  LET mem_buf == fgets(content, 64)
  IN  IF mem_buf = << >> THEN -1 ELSE parseStat(mem_buf, -1)

user_usec_key == << "u", "s", "e", "r", "_", "u", "s", "e", "c", " " >>
system_usec_key == << "s", "y", "s", "t", "e", "m", "_", "u", "s", "e", "c", " " >>

\* strncmp(line, key, n) == 0 for a key of n bytes.
strncmp0(line, key, n) == Len(line) >= n /\ SubSeq(line, 1, n) = key

\* removeCgroup lines 189-269: the loop over the lines of cpu.stat; u and sy
\* are user_usec and system_usec so far.
RECURSIVE readCpuStat(_, _, _)
readCpuStat(rest, u, sy) ==
  LET line == fgets(rest, 256)
      left == SubSeq(rest, Len(line) + 1, Len(rest))
      u2   == IF u = -1 /\ strncmp0(line, user_usec_key, 10)
              THEN parseStat(SubSeq(line, 11, Len(line)), -2)
              ELSE u
      s2   == IF ~(u = -1 /\ strncmp0(line, user_usec_key, 10))
                 /\ sy = -1 /\ strncmp0(line, system_usec_key, 12)
              THEN parseStat(SubSeq(line, 13, Len(line)), -1)
              ELSE sy
  IN  IF line = << >> THEN [user_usec |-> u, system_usec |-> sy]
      ELSE IF u2 # -1 /\ s2 # -1
      THEN [user_usec |-> u2, system_usec |-> s2]
      ELSE readCpuStat(left, u2, s2)

\* long long addition: the sum when it fits; signed overflow is undefined,
\* so any value otherwise.
addLL(a, b) ==
  IF a + b <= LLONG_MAX /\ a + b >= LLONG_MIN
  THEN {a + b}
  ELSE LLONG_MIN..LLONG_MAX

\* removeCgroup lines 281-293: the possible values of total_cpu_usec.
totalCpuUsec(u, sy) ==
  IF u >= 0 /\ sy >= 0 THEN addLL(u, sy) ELSE {-1}

\* needMemoryController / needPidsController / needCpuController.
needMemoryController(c) == ~(c.cgroup_mem_max = 0 /\ derivedSwapMax(c) < 0)

\* A faulty needPidsController that always asks for pids (C17 must notice it).
needPidsController_always(c) == TRUE

needPidsController(c) == c.cgroup_pids_max # 0

needCpuController(c) == c.cgroup_cpu_ms_per_sec # 0

\* The controllers setup enables, in the order it enables them.
neededControllers(c) ==
  (IF needMemoryController(c) THEN << "memory" >> ELSE << >>)
  \o (IF needPidsController(c) THEN << "pids" >> ELSE << >>)
  \o (IF needCpuController(c) THEN << "cpu" >> ELSE << >>)

\* Controller names as the bytes of their C strings.
chars(name) ==
  CASE name = "cpuset" -> << "c", "p", "u", "s", "e", "t" >>
    [] name = "cpu"    -> << "c", "p", "u" >>
    [] name = "io"     -> << "i", "o" >>
    [] name = "memory" -> << "m", "e", "m", "o", "r", "y" >>
    [] name = "pids"   -> << "p", "i", "d", "s" >>

\* The controllers the kernel may list, in the order in which it lists them.
KernelOrder == << "cpuset", "cpu", "io", "memory", "pids" >>
Controllers == {KernelOrder[i] : i \in 1..Len(KernelOrder)}

\* The content of cgroup.subtree_control: the listed names, space-separated.
RECURSIVE contentFrom(_, _)
contentFrom(listed, i) ==
  IF i > Len(KernelOrder) THEN << >>
  ELSE IF KernelOrder[i] \notin listed THEN contentFrom(listed, i + 1)
  ELSE LET rest == contentFrom(listed, i + 1)
       IN  chars(KernelOrder[i])
             \o (IF rest = << >> THEN << >> ELSE << " " >> \o rest)

contentOf(listed) == contentFrom(listed, 1)

\* A faulty read that leaves the buffer empty (C16 must notice it).
readFromFile_nothing(content, max) == << >>

\* util::readFromFile(p, buf, SUBTREE_CONTROL_BUF_LEN - 1): at most max bytes.
readFromFile(content, max) ==
  SubSeq(content, 1, IF Len(content) > max THEN max ELSE Len(content))

\* strstr(hay, needle) != NULL.
strstr(hay, needle) ==
  \E i \in 1..(Len(hay) - Len(needle) + 1) :
    SubSeq(hay, i, i + Len(needle) - 1) = needle

\* setup lines 376-378: subtree_ok.
subtreeOk(c, buf) ==
  /\ (~needMemoryController(c) \/ strstr(buf, chars("memory")))
  /\ (~needPidsController(c) \/ strstr(buf, chars("pids")))
  /\ (~needCpuController(c) \/ strstr(buf, chars("cpu")))

\* A faulty enableCgroupSubtree that retries after any failure (C15 must
\* notice it).
retryOn_always(err) == TRUE

\* enableCgroupSubtree line 94: the failure after which it moves itself and
\* retries.
retryOn(err) == err = "EBUSY"

\* cgroup2::setup before its first call.
SetupIdle ==
  [ pc |-> "idle", calls |-> 0, buf |-> << >>, todo |-> << >>, log |-> << >>,
    selfDir |-> FALSE, selfIn |-> FALSE, ret |-> "none", why |-> "none",
    prev |-> "none" ]

\* NSJAIL.<pid> before initNsFromParent: no file written, Mem is next.
NoFiles == [at |-> "mem", ok |-> TRUE, written |-> << >>]

\* ------------------------------------------------------------- subproc.cc
\* A faulty addProc that inserts nothing (C1 must notice it).
addProc_noInsert(reg, pid, t) == reg

\* addProc: insert the record.  A pid already present is a LOG_F; it does not
\* arise, as a pid is not handed out again before it is reaped.
addProc(reg, pid, t) ==
  [ q \in (DOMAIN reg) \cup {pid} |->
      IF q \in DOMAIN reg THEN reg[q] ELSE [start |-> t] ]

\* A faulty close that leaves the descriptor open (C13 must notice it).
closeFd_leak(f) == f

\* removeProc line 274: close(p.pid_syscall_fd).  Closing a descriptor that is
\* not open is recorded as "badclose".
closeFd(f) == IF f = "open" THEN "closed" ELSE "badclose"

\* A faulty runChild that forgets close(child_fd) (C24 must notice it).
closeSv_keepChild(s, end) ==
  IF end = "child_fd" THEN s ELSE [s EXCEPT ![end] = closeFd(@)]

\* close(child_fd) / close(parent_fd) in runChild.
closeSv(s, end) == [s EXCEPT ![end] = closeFd(@)]

\* removeProc: erase the record.
removeProc(reg, pid) ==
  [ q \in (DOMAIN reg) \ {pid} |-> reg[q] ]

\* A faulty reapResult that forgets the 128 offset (C10 must notice it).
reapResult_noOffset(st) == st.val

\* reapProc(pid): the value returned for a consumed status.
reapResult(st) ==
  IF st.kind = "exited" THEN st.val ELSE 128 + st.val

\* A faulty closeParentFd that leaks the descriptor (C5 must notice it).
closeParentFd_leak(ch) == ch

\* close(parent_fd) in runChild / at supervisor exit.  Bytes queued for a
\* closed end are gone; the child's end stays as it is.
closeParentFd(ch) == [ch EXCEPT !.parentEnd = FALSE, !.toParent = << >>]

\* A faulty newProc that contains the process before the handshake read
\* (C7 must notice it).
newProcNext_containFirst(s) ==
  CASE s = "setupFD"     -> "resetEnv"
    [] s = "resetEnv"    -> "containProc"
    [] s = "containProc" -> "readDone"
    [] s = "readDone"    -> "env"
    [] s = "env"         -> "applyPolicy"
    [] s = "applyPolicy" -> "exec"
    [] s = "exec"        -> "running"

\* newProc: the step that follows step s when s succeeded.
newProcNext(s) ==
  CASE s = "setupFD"     -> "resetEnv"
    [] s = "resetEnv"    -> "readDone"
    [] s = "readDone"    -> "containProc"
    [] s = "containProc" -> "env"
    [] s = "env"         -> "applyPolicy"
    [] s = "applyPolicy" -> "exec"
    [] s = "exec"        -> "running"

\* A faulty child that skips the write of 'E' (C8 must notice it).
newProcFailed_silent(s) == "fatal"

\* runChild, child side: what follows a return from newProc.
newProcFailed(s) == "sendErr"

\* newProc: the handshake read lets the child go on only for one byte 'D'.
doneCharOk(buf) == Len(buf) >= 1 /\ Head(buf) = kSubprocDoneChar

\* A faulty test that also takes EOF for an error (C6 must notice it).
rcvIsError_orEof(r) == r \in {kSubprocErrorChar, "EOF"}

\* runChild: the test on the byte read from parent_fd.
rcvIsError(r) == r = kSubprocErrorChar

\* RLIM64_INFINITY: the largest value of the (scaled) 64-bit limit.
RLIM64_INFINITY == SizeMod - 1

\* A faulty addProc that stores the limit even with rlimits disabled (C21 must
\* notice it).
storedCpuRlMax_ignoreDisable(disable_rl, rl_cpu) == rl_cpu

\* addProc lines 249-253: the hard CPU limit kept in the record.
storedCpuRlMax(disable_rl, rl_cpu) ==
  IF ~disable_rl THEN rl_cpu ELSE RLIM64_INFINITY

\* A struct timeval in microseconds.
usecOf(tv) == tv.tv_sec * 1000000 + tv.tv_usec

\* reapProc(pid) lines 387-419: the line logged for a reaped child.  tot_sec
\* is user + system time; the doubles are exact at these magnitudes, so the
\* comparison is made in microseconds.
classify(st, cpu_rl_max, utime, stime) ==
  IF st.kind = "exited" THEN "exited"
  ELSE IF st.val = SIGXCPU THEN "CPU soft limit exceeded"
  ELSE IF st.val = SIGKILL
       THEN IF /\ cpu_rl_max # RLIM64_INFINITY
               /\ usecOf(utime) + usecOf(stime) >= cpu_rl_max * 1000000
            THEN "CPU hard limit exceeded"
            ELSE "killed by SIGKILL"
  ELSE "terminated with signal"

\* No child followed yet by the classification.
ClsIdle == [ at |-> "none" ]

\* ---------------------------------------------------------------- initial
\* Nothing spawned yet, the supervisor between operations.
LifecycleIdle ==
  /\ pc = "idle"
  /\ mode = "none"
  /\ cur = 0
  /\ rv = 0
  /\ ret = 0
  /\ lastFail = "none"
  /\ rcv = "none"
  /\ sv = [child_fd |-> "none", parent_fd |-> "none"]
  /\ nextPid = 1
  /\ now = 0
  /\ child = [p \in PIDs |-> [pc |-> "none", status |-> NoStatus]]
  /\ chan = [p \in PIDs |-> [toChild |-> << >>, toParent |-> << >>,
                             parentEnd |-> FALSE, childEnd |-> FALSE,
                             childRead |-> "none", errWrite |-> "none"]]
  /\ fd = [p \in PIDs |-> "none"]
  /\ cg = [p \in PIDs |-> NoCgroup]
  /\ sigs = [p \in PIDs |-> << >>]
  /\ pids = << >>
  /\ diag = {}
  /\ status = NoStatus

\* removeCgroup, systemExe, cloneProc not followed.
StatsIdle == [ at |-> "none" ]
SysExeIdle ==
  [ at |-> "none", ret |-> 0, exec_failed |-> FALSE, helper |-> "none",
    status |-> NoStatus, execve |-> "none", pipe |-> << >>, writers |-> 0,
    forked |-> FALSE, eintr |-> FALSE, waitErr |-> FALSE, calls |-> 0,
    prev |-> 0 ]
CloneIdle ==
  [ at |-> "none", flags |-> {}, kernel |-> "none", attempts |-> << >>,
    ret |-> 0, errno |-> "none", childRet |-> << >>, calls |-> 0,
    prev |-> 0 ]

\* The functions followed on their own have not run.
AuxIdle ==
  /\ cpuCls = ClsIdle
  /\ stats = StatsIdle
  /\ sysExe = SysExeIdle
  /\ cloneSt = CloneIdle

Init ==
  /\ conf \in Configs
  /\ subtree = {}
  /\ setupSt = SetupIdle
  /\ files = NoFiles
  /\ LifecycleIdle
  /\ AuxIdle

\* ------------------------------------------------------- kernel primitives
\* A faulty kill that never delivers (C12 must notice it).
killOk_never(p) == FALSE

\* kill(pid, sig): succeeds for a child that has not been reaped (running or
\* zombie); ESRCH otherwise.
killOk(p) == p \in PIDs /\ (IsLive(p) \/ IsZombie(p))

\* The process table after SIGKILL has been delivered to p.
afterSigkill(ch, p) ==
  IF ch[p].pc \in LivePcs
  THEN [ch EXCEPT ![p] = [pc |-> "zombie", status |-> Signaled(SIGKILL)]]
  ELSE ch

\* Every descriptor of a dead or exec'ed child is closed (SOCK_CLOEXEC).
closeChildEnd(ch) == [ch EXCEPT !.childEnd = FALSE, !.toChild = << >>]

\* The locals of a process (doneChar, the result of its write) end with it.
dropLocals(ch) == [ch EXCEPT !.childRead = "none", !.errWrite = "none"]

\* ------------------------------------------------------ runChild (parent)
\* Return from runChild with value v; step names the failing step, if any.
RunChildReturn(v, step) ==
  /\ pc' = "idle"
  /\ ret' = v
  /\ lastFail' = step

\* runChild lines 521-553: limitConns and socketpair.
RunChildBegin ==
  /\ pc = "idle"
  /\ nextPid <= MaxPid
  /\ mode' = "runChild"
  /\ cur' = 0
  /\ rcv' = "none"
  /\ \E limitConns \in BOOLEAN, socketpair \in BOOLEAN :
       IF ~limitConns
       THEN /\ RunChildReturn(0, "limitConns")
            /\ sv' = [child_fd |-> "none", parent_fd |-> "none"]
       ELSE IF ~socketpair
       THEN /\ RunChildReturn(-1, "socketpair")
            /\ sv' = [child_fd |-> "none", parent_fd |-> "none"]
       ELSE /\ pc' = "clone"
            /\ sv' = [child_fd |-> "open", parent_fd |-> "open"]
            /\ ret' = 0
            /\ lastFail' = "none"
  /\ rv' = 0
  /\ status' = NoStatus
  /\ UNCHANGED << conf, subtree, setupSt, files, auxVars, nextPid, now, child, chan, fd, cg, sigs, pids, diag >>

\* runChild lines 555-569, parent side: cloneProc, close(child_fd), and the
\* clone-failure return.  On success the new process starts newProc with its
\* copy of parent_fd closed (line 557).
RunChildClone ==
  /\ pc = "clone"
  /\ \E ok \in BOOLEAN :
       IF ok
       THEN /\ cur' = nextPid
            /\ nextPid' = nextPid + 1
            /\ child' = [child EXCEPT ![nextPid] =
                           [pc |-> "setupFD", status |-> NoStatus]]
            /\ chan' = [chan EXCEPT ![nextPid] =
                          [@ EXCEPT !.parentEnd = TRUE, !.childEnd = TRUE]]
            /\ sv' = closeSv(sv, "child_fd")
            /\ pc' = "addProc"
            /\ UNCHANGED << ret, lastFail >>
       ELSE /\ sv' = closeSv(closeSv(sv, "child_fd"), "parent_fd")
            /\ RunChildReturn(-1, "clone")
            /\ UNCHANGED << cur, nextPid, child, chan >>
  /\ UNCHANGED << conf, subtree, setupSt, files, auxVars, mode, rv, rcv, now, fd, cg, sigs, pids, diag,
                  status >>

\* runChild line 570: addProc.
RunChildAddProc ==
  /\ pc = "addProc"
  /\ pids' = addProc(pids, cur, now)
  /\ fd' = [fd EXCEPT ![cur] = "open"]
  /\ pc' = "initNet"
  /\ UNCHANGED << conf, subtree, setupSt, files, auxVars, mode, cur, rv, ret, lastFail, rcv, sv, nextPid, now,
                  child, chan, cg, sigs, diag, status >>

\* runChild lines 572-575: initParent returned false.
InitParentFailed(step) ==
  /\ chan' = [chan EXCEPT ![cur] = closeParentFd(chan[cur])]
  /\ sv' = closeSv(sv, "parent_fd")
  /\ RunChildReturn(-1, step)

\* initParent lines 495-498: net::initNsFromParent.
InitParentNet ==
  /\ pc = "initNet"
  /\ \E ok \in BOOLEAN :
       IF ok
       THEN /\ pc' = "initCgroup"
            /\ UNCHANGED << ret, lastFail, chan, sv >>
       ELSE InitParentFailed("net")
  /\ UNCHANGED << conf, subtree, setupSt, files, auxVars, mode, cur, rv, rcv, nextPid, now, child, fd, cg,
                  sigs, pids, diag, status >>

\* initParent lines 500-504: cgroup2::initNsFromParent; the first k file
\* operations succeed and, if k is not all of them, operation k+1 fails.
InitParentCgroup ==
  /\ pc = "initCgroup"
  /\ LET ops == initNsFromParent(conf) IN
     \E k \in 0..Len(ops) :
       /\ cg' = [cg EXCEPT ![cur] = cgroupAfter(ops, k)]
       /\ IF k = Len(ops)
          THEN /\ pc' = "initUser"
               /\ UNCHANGED << ret, lastFail, chan, sv >>
          ELSE \* exit(0xff): the process ends and all its descriptors close
               /\ pc' = "exited"
               /\ ret' = FatalExitCode
               /\ lastFail' = "cgroup"
               /\ chan' = [chan EXCEPT ![cur] = closeParentFd(chan[cur])]
               /\ sv' = [sv EXCEPT !.parent_fd = "closed"]
  /\ UNCHANGED << conf, subtree, setupSt, files, auxVars, mode, cur, rv, rcv, nextPid, now, child, fd, sigs,
                  pids, diag, status >>

\* initParent lines 510-513: user::initNsFromParent.
InitParentUser ==
  /\ pc = "initUser"
  /\ \E ok \in BOOLEAN :
       IF ok
       THEN /\ pc' = "writeDone"
            /\ UNCHANGED << ret, lastFail, chan, sv >>
       ELSE InitParentFailed("user")
  /\ UNCHANGED << conf, subtree, setupSt, files, auxVars, mode, cur, rv, rcv, nextPid, now, child, fd, cg,
                  sigs, pids, diag, status >>

\* initParent lines 514-518: write 'D'; the write fails (EPIPE) when the
\* child's end is already closed.
InitParentWriteDone ==
  /\ pc = "writeDone"
  /\ IF chan[cur].childEnd
     THEN /\ chan' = [chan EXCEPT ![cur].toChild = Append(@, kSubprocDoneChar)]
          /\ pc' = "readRcv"
          /\ UNCHANGED << ret, lastFail, sv >>
     ELSE InitParentFailed("done")
  /\ UNCHANGED << conf, subtree, setupSt, files, auxVars, mode, cur, rv, rcv, nextPid, now, child, fd, cg,
                  sigs, pids, diag, status >>

\* runChild lines 577-586: blocking read of one byte from parent_fd, then
\* close(parent_fd) and return.
RunChildReadRcv ==
  /\ pc = "readRcv"
  /\ chan[cur].toParent # << >> \/ ~chan[cur].childEnd
  /\ LET r == IF chan[cur].toParent # << >>
              THEN Head(chan[cur].toParent) ELSE "EOF" IN
       /\ rcv' = r
       /\ chan' = [chan EXCEPT ![cur] =
                     closeParentFd([@ EXCEPT !.toParent =
                        IF @ = << >> THEN @ ELSE Tail(@)])]
       /\ sv' = closeSv(sv, "parent_fd")
       /\ IF rcvIsError(r)
          THEN RunChildReturn(-1, "childerr")
          ELSE RunChildReturn(cur, "none")
  /\ UNCHANGED << conf, subtree, setupSt, files, auxVars, mode, cur, rv, nextPid, now, child, fd, cg, sigs,
                  pids, diag, status >>

\* ------------------------------------------------- newProc (child side)
supVars == << conf, subtree, setupSt, files, auxVars, pc, mode, cur, rv, ret, lastFail, rcv, sv, nextPid, now,
              fd, cg, sigs, pids, diag, status >>

\* The behaviour of interest ends when the supervisor has called exit().
ChildMayStep(p) == pc # "exited" /\ p \in PIDs

\* A child turns into a zombie with the given status; its descriptors close.
ChildDies(p, st) ==
  /\ child' = [child EXCEPT ![p] = [pc |-> "zombie", status |-> st]]
  /\ chan' = [chan EXCEPT ![p] = dropLocals(closeChildEnd(@))]

\* newProc lines 165-170, 195-203, 217-219: setupFD, resetEnv, containProc,
\* the environment, applyPolicy.  clearenv/putenv results are not checked.
ChildStep(p) ==
  /\ ChildMayStep(p)
  /\ child[p].pc \in {"setupFD", "resetEnv", "containProc", "env", "applyPolicy"}
  /\ \E ok \in BOOLEAN :
       /\ child[p].pc = "env" => ok
       /\ child' = [child EXCEPT ![p].pc =
                      IF ok THEN newProcNext(@) ELSE newProcFailed(@)]
  /\ UNCHANGED chan
  /\ UNCHANGED supVars

\* newProc lines 187-193: blocking read of one byte from pipefd.
ChildReadDone(p) ==
  /\ ChildMayStep(p)
  /\ child[p].pc = "readDone"
  /\ chan[p].toChild # << >> \/ ~chan[p].parentEnd
  /\ LET buf == chan[p].toChild IN
       /\ chan' = [chan EXCEPT
                     ![p].toChild = IF buf = << >> THEN buf ELSE Tail(buf),
                     ![p].childRead = IF buf = << >> THEN "EOF" ELSE Head(buf)]
       /\ child' = [child EXCEPT ![p].pc =
                      IF doneCharOk(buf) THEN newProcNext(@) ELSE newProcFailed(@)]
  /\ UNCHANGED supVars

\* newProc lines 221-233: execv/execveat.  Success closes the close-on-exec
\* handshake descriptor; a filter that forbids the exec syscall kills the
\* child with SIGSYS.
ChildExec(p) ==
  /\ ChildMayStep(p)
  /\ child[p].pc = "exec"
  /\ \/ /\ child' = [child EXCEPT ![p].pc = newProcNext(@)]
        /\ chan' = [chan EXCEPT ![p] = closeChildEnd(@)]
     \/ /\ child' = [child EXCEPT ![p].pc = newProcFailed(@)]
        /\ chan' = chan
     \/ ChildDies(p, Signaled(SIGSYS))
  /\ UNCHANGED supVars

\* runChild line 559: write 'E' to child_fd.  With the parent's end closed
\* the write fails with EPIPE, or SIGPIPE kills the child.
ChildSendErr(p) ==
  /\ ChildMayStep(p)
  /\ child[p].pc = "sendErr"
  /\ IF chan[p].parentEnd
     THEN /\ chan' = [chan EXCEPT ![p].toParent = Append(@, kSubprocErrorChar),
                                  ![p].errWrite = "sent"]
          /\ child' = [child EXCEPT ![p].pc = "fatal"]
     ELSE \/ /\ chan' = [chan EXCEPT ![p].errWrite = "failed"]
             /\ child' = [child EXCEPT ![p].pc = "fatal"]
          \/ ChildDies(p, Signaled(SIGPIPE))
  /\ UNCHANGED supVars

\* runChild line 560: LOG_F ends the child.
ChildFatal(p) ==
  /\ ChildMayStep(p)
  /\ child[p].pc = "fatal"
  /\ ChildDies(p, Exited(FatalExitCode))
  /\ UNCHANGED supVars

\* The exec'ed target ends: exit(0), exit(1), or a seccomp violation.
ChildExit(p) ==
  /\ ChildMayStep(p)
  /\ child[p].pc = "running"
  /\ \E st \in {Exited(0), Exited(1), Signaled(SIGSYS)} : ChildDies(p, st)
  /\ UNCHANGED supVars

\* Any live child can be killed from outside at any point (e.g. OOM kill).
ChildKilled(p) ==
  /\ ChildMayStep(p)
  /\ IsLive(p)
  /\ ChildDies(p, Signaled(SIGKILL))
  /\ UNCHANGED supVars

\* ------------------------------------------------------------- the reaper
\* A faulty drain loop that never runs seccompViolation (C9 must notice it).
afterPeek_noSeccomp(st) == "wait4"

\* reapProc(nsjconf) lines 443-446: what follows the peek of a child.
afterPeek(st) ==
  IF st = Signaled(SIGSYS) THEN "seccomp" ELSE "wait4"

\* A faulty reapProc(pid) that removes the record before the cgroup teardown
\* (C3 must notice it).
reapNext_removeFirst(step, c) ==
  CASE step = "wait4"      -> "removeProc"
    [] step = "removeProc" -> IF finishFromParent(c) THEN "cgStats" ELSE "done"
    [] step = "cgStats"    -> "cgRmdir"
    [] step = "cgRmdir"    -> "done"

\* A faulty reapProc(pid) that returns without removing the record (C14 must
\* notice it).
reapNext_keepRecord(step, c) ==
  CASE step = "wait4"      -> IF finishFromParent(c) THEN "cgStats" ELSE "done"
    [] step = "cgStats"    -> "cgRmdir"
    [] step = "cgRmdir"    -> "done"
    [] step = "removeProc" -> "done"

\* reapProc(pid) lines 368-419: the order of the steps after each step;
\* "done" is the return to the caller.
reapNext(step, c) ==
  CASE step = "wait4"      -> IF finishFromParent(c) THEN "cgStats"
                                                     ELSE "removeProc"
    [] step = "cgStats"    -> "cgRmdir"
    [] step = "cgRmdir"    -> "removeProc"
    [] step = "removeProc" -> "done"

\* Move on from a step of reapProc(pid); the caller's loop takes the result.
ReapGoto(next, st) ==
  IF next = "done"
  THEN /\ pc' = IF mode = "drain" THEN "peek" ELSE "killLoop"
       /\ rv' = IF mode = "drain" THEN reapResult(st) ELSE rv
  ELSE /\ pc' = next
       /\ rv' = rv

\* reapProc(nsjconf) lines 431-434: a drain pass starts.
ReapBegin ==
  /\ pc = "idle"
  /\ pc' = "peek"
  /\ mode' = "drain"
  /\ rv' = 0
  /\ cur' = 0
  /\ status' = NoStatus
  /\ ret' = 0
  /\ lastFail' = "none"
  /\ rcv' = "none"
  /\ sv' = [child_fd |-> "none", parent_fd |-> "none"]
  /\ UNCHANGED << conf, subtree, setupSt, files, auxVars, nextPid, now, child, chan, fd, cg, sigs, pids, diag >>

\* reapProc(nsjconf) lines 435-446: waitid(P_ALL, WNOHANG|WNOWAIT|WEXITED)
\* returns any exited, unreaped child and leaves it waitable.
ReapPeek ==
  /\ pc = "peek"
  /\ IF \E p \in PIDs : IsZombie(p)
     THEN \E p \in PIDs :
            /\ IsZombie(p)
            /\ cur' = p
            /\ pc' = afterPeek(child[p].status)
     ELSE /\ pc' = "sweep"
          /\ cur' = cur
  /\ UNCHANGED << conf, subtree, setupSt, files, auxVars, mode, rv, ret, lastFail, rcv, sv, nextPid, now,
                  child, chan, fd, cg, sigs, pids, diag, status >>

\* seccompViolation lines 294-342: look the record up and read its
\* pid_syscall_fd.
ReapSeccomp ==
  /\ pc = "seccomp"
  /\ diag' = IF cur \in DOMAIN pids THEN diag \cup {cur} ELSE diag
  /\ pc' = "wait4"
  /\ UNCHANGED << conf, subtree, setupSt, files, auxVars, mode, cur, rv, ret, lastFail, rcv, sv, nextPid, now,
                  child, chan, fd, cg, sigs, pids, status >>

\* A faulty wait4 that leaves the child waitable, as WNOWAIT would (C27 must
\* notice it).
wait4Consumes_not(ch, p) == ch

\* reapProc(pid) line 368: wait4 returns the status of the exited child p and
\* releases it; p is no child any more.
wait4Consumes(ch, p) ==
  [ch EXCEPT ![p] = [pc |-> "reaped", status |-> NoStatus]]

\* reapProc(pid) lines 344-368 and 421-428: wait4(pid, WNOHANG) in a drain
\* pass, a blocking wait4(pid, 0) from killAndReapAll.  A child that is not
\* ready, or is no child, makes reapProc(pid) return 0.
ReapWait4 ==
  /\ pc = "wait4"
  /\ ~(mode = "killall" /\ IsLive(cur))
  /\ IF IsZombie(cur)
     THEN /\ child' = wait4Consumes(child, cur)
          /\ status' = child[cur].status
          /\ sigs' = [sigs EXCEPT ![cur] = << >>]
          /\ ReapGoto(reapNext("wait4", conf), child[cur].status)
     ELSE /\ pc' = IF mode = "drain" THEN "peek" ELSE "killLoop"
          /\ rv' = IF mode = "drain" THEN 0 ELSE rv
          /\ UNCHANGED << child, status, sigs >>
  /\ UNCHANGED << conf, subtree, setupSt, files, auxVars, mode, cur, ret, lastFail, rcv, sv, nextPid, now,
                  chan, fd, cg, pids, diag >>

\* removeCgroup lines 123-324: memory.peak and cpu.stat are read and logged.
ReapCgStats ==
  /\ pc = "cgStats"
  /\ cg' = [cg EXCEPT ![cur].statsRead = TRUE]
  /\ ReapGoto(reapNext("cgStats", conf), status)
  /\ UNCHANGED << conf, subtree, setupSt, files, auxVars, mode, cur, ret, lastFail, rcv, sv, nextPid, now,
                  child, chan, fd, sigs, pids, diag, status >>

\* removeCgroup lines 326-329: rmdir is attempted; a failure is only logged.
ReapCgRmdir ==
  /\ pc = "cgRmdir"
  /\ cg' = [cg EXCEPT ![cur].rmdir = TRUE]
  /\ ReapGoto(reapNext("cgRmdir", conf), status)
  /\ UNCHANGED << conf, subtree, setupSt, files, auxVars, mode, cur, ret, lastFail, rcv, sv, nextPid, now,
                  child, chan, fd, sigs, pids, diag, status >>

\* removeProc lines 264-276: close(pid_syscall_fd) and erase the record.
ReapRemoveProc ==
  /\ pc = "removeProc"
  /\ pids' = removeProc(pids, cur)
  /\ fd' = IF cur \in DOMAIN pids THEN [fd EXCEPT ![cur] = closeFd(@)] ELSE fd
  /\ diag' = diag \ {cur}
  /\ ReapGoto(reapNext("removeProc", conf), status)
  /\ UNCHANGED << conf, subtree, setupSt, files, auxVars, mode, cur, ret, lastFail, rcv, sv, nextPid, now,
                  child, chan, cg, sigs, status >>

\* A faulty timeout test that never fires (C28 must notice it).
timedOut_never(c, rec, t) == FALSE

\* A faulty timeout test that spares a record of age exactly tlimit (C11 must
\* notice it).
timedOut_strict(c, rec, t) == c.tlimit # 0 /\ t - rec.start > c.tlimit

\* reapProc(nsjconf) lines 455-467: the timeout test on one record.
timedOut(c, rec, t) ==
  /\ c.tlimit # 0
  /\ t - rec.start >= 0
  /\ t - rec.start >= c.tlimit

\* reapProc(nsjconf) lines 449-480: the timeout sweep, then return rv.
ReapSweep ==
  /\ pc = "sweep"
  /\ LET S == {p \in DOMAIN pids : timedOut(conf, pids[p], now)} IN
       /\ sigs' = [p \in PIDs |->
                     IF p \in S THEN sigs[p] \o << SIGCONT, SIGKILL >>
                                ELSE sigs[p]]
       /\ child' = [p \in PIDs |->
                      IF p \in S THEN afterSigkill(child, p)[p] ELSE child[p]]
       /\ chan' = [p \in PIDs |->
                     IF p \in S /\ IsLive(p)
                     THEN dropLocals(closeChildEnd(chan[p]))
                     ELSE chan[p]]
  /\ ret' = rv
  /\ pc' = "idle"
  /\ UNCHANGED << conf, subtree, setupSt, files, auxVars, mode, cur, rv, lastFail, rcv, sv, nextPid, now,
                  fd, cg, pids, diag, status >>

\* killAndReapAll line 483: entry (the signal is SIGKILL).
KillAllBegin ==
  /\ pc = "idle"
  /\ mode' = "killall"
  /\ pc' = "killLoop"
  /\ cur' = 0
  /\ status' = NoStatus
  /\ rv' = 0
  /\ ret' = 0
  /\ lastFail' = "none"
  /\ rcv' = "none"
  /\ sv' = [child_fd |-> "none", parent_fd |-> "none"]
  /\ UNCHANGED << conf, subtree, setupSt, files, auxVars, nextPid, now, child, chan, fd, cg, sigs, pids, diag >>

\* killAndReapAll lines 484-491: one iteration of the loop, up to the call
\* of reapProc(pid, true) or through removeProc.
KillLoop ==
  /\ pc = "killLoop"
  /\ IF DOMAIN pids = {}
     THEN /\ pc' = "idle"
          /\ UNCHANGED << cur, sigs, child, chan, pids, fd >>
     ELSE LET pid == CHOOSE p \in DOMAIN pids : \A q \in DOMAIN pids : p <= q IN
          IF killOk(pid)
          THEN /\ sigs' = [sigs EXCEPT ![pid] = Append(@, SIGKILL)]
               /\ child' = afterSigkill(child, pid)
               /\ chan' = IF IsLive(pid)
                          THEN [chan EXCEPT ![pid] = dropLocals(closeChildEnd(@))]
                          ELSE chan
               /\ cur' = pid
               /\ pc' = "wait4"
               /\ UNCHANGED << pids, fd >>
          ELSE /\ pids' = removeProc(pids, pid)
               /\ fd' = [fd EXCEPT ![pid] = closeFd(@)]
               /\ pc' = "killLoop"
               /\ UNCHANGED << cur, sigs, child, chan >>
  /\ UNCHANGED << conf, subtree, setupSt, files, auxVars, mode, rv, ret, lastFail, rcv, sv, nextPid, now, cg,
                  diag, status >>

\* The wall clock advances.
Tick ==
  /\ pc # "exited"
  /\ now < MaxTime
  /\ now' = now + 1
  /\ UNCHANGED << conf, subtree, setupSt, files, auxVars, pc, mode, cur, rv, ret, lastFail, rcv, sv, nextPid,
                  child, chan, fd, cg, sigs, pids, diag, status >>

\* ------------------------------------------------------------ specification
Next ==
  \/ RunChildBegin
  \/ RunChildClone
  \/ RunChildAddProc
  \/ InitParentNet
  \/ InitParentCgroup
  \/ InitParentUser
  \/ InitParentWriteDone
  \/ RunChildReadRcv
  \/ ReapBegin
  \/ ReapPeek
  \/ ReapSeccomp
  \/ ReapWait4
  \/ ReapCgStats
  \/ ReapCgRmdir
  \/ ReapRemoveProc
  \/ ReapSweep
  \/ KillAllBegin
  \/ KillLoop
  \/ Tick
  \/ \E p \in PIDs : ChildStep(p)
  \/ \E p \in PIDs : ChildReadDone(p)
  \/ \E p \in PIDs : ChildExec(p)
  \/ \E p \in PIDs : ChildSendErr(p)
  \/ \E p \in PIDs : ChildFatal(p)
  \/ \E p \in PIDs : ChildExit(p)
  \/ \E p \in PIDs : ChildKilled(p)

Spec == Init /\ [][Next]_vars

\* A step of the operation the supervisor is in.  The supervisor is a running
\* process: an operation that has a step to take takes it.
SupervisorStep ==
  \/ RunChildClone \/ RunChildAddProc
  \/ InitParentNet \/ InitParentCgroup \/ InitParentUser
  \/ InitParentWriteDone \/ RunChildReadRcv
  \/ ReapPeek \/ ReapSeccomp \/ ReapWait4 \/ ReapCgStats \/ ReapCgRmdir
  \/ ReapRemoveProc \/ ReapSweep \/ KillLoop

FairSpec == Spec /\ WF_vars(SupervisorStep)

\* ---------------------------------------------------------- cgroup2::setup
\* Everything but the cgroup filesystem's root and setup's own state.
lifeVars == << pc, mode, cur, rv, ret, lastFail, rcv, sv, nextPid, now,
               child, chan, fd, cg, sigs, pids, diag, status >>

\* One operation of setup on the root cgroup and its outcome.
LogEntry(op, name, res) == [op |-> op, name |-> name, res |-> res]

\* setup returns.
SetupReturn(st, r, why) ==
  [st EXCEPT !.pc = "idle", !.ret = r, !.why = why, !.todo = << >>]

\* enableCgroupSubtree returned true: the next needed controller, or the end.
SetupEnabled(st) ==
  IF Len(st.todo) = 1
  THEN SetupReturn(st, "ok", "none")
  ELSE [st EXCEPT !.pc = "write", !.todo = Tail(st.todo)]

\* setup is called (nsjail calls it once; a second call models the claim
\* about calling it again).
SetupBegin ==
  /\ setupSt.pc = "idle"
  /\ setupSt.calls < MaxSetupCalls
  /\ setupSt' = [setupSt EXCEPT !.pc = "read", !.calls = @ + 1,
                                !.buf = << >>, !.todo = << >>, !.log = << >>,
                                !.prev = setupSt.ret, !.ret = "none",
                                !.why = "none"]
  /\ UNCHANGED << conf, subtree, files, lifeVars, auxVars >>

\* Lines 367-391 up to the first write: read the root's subtree_control and
\* decide whether anything is to be enabled.
SetupRead ==
  /\ setupSt.pc = "read"
  /\ \E ok \in BOOLEAN :
       IF ~ok
       THEN setupSt' = SetupReturn(setupSt, "fail", "read")
       ELSE LET buf == readFromFile(contentOf(subtree),
                                    SUBTREE_CONTROL_BUF_LEN - 1)
                st  == [setupSt EXCEPT !.buf = buf]
            IN  setupSt' =
                  IF subtreeOk(conf, buf)
                  THEN SetupReturn(st, "ok", "none")
                  ELSE [st EXCEPT !.pc = "write",
                                  !.todo = neededControllers(conf)]
  /\ UNCHANGED << conf, subtree, files, lifeVars, auxVars >>

\* enableCgroupSubtree lines 90-93: the first write of "+name".
SetupWrite ==
  /\ setupSt.pc = "write"
  /\ \E res \in {"ok", "EBUSY", "EACCES"} :
       LET name == Head(setupSt.todo)
           st   == [setupSt EXCEPT
                      !.log = Append(@, LogEntry("write", name, res))]
       IN  /\ setupSt' = IF res = "ok" THEN SetupEnabled(st)
                         ELSE IF retryOn(res)
                              THEN [st EXCEPT !.pc = "mkdirSelf"]
                              ELSE SetupReturn(st, "fail", "write")
           /\ subtree' = IF res = "ok" THEN subtree \cup {name} ELSE subtree
  /\ UNCHANGED << conf, files, lifeVars, auxVars >>

\* moveSelfIntoChildCgroup line 75: mkdir NSJAIL_SELF.<pid> (EEXIST is fine).
SetupMkdirSelf ==
  /\ setupSt.pc = "mkdirSelf"
  /\ \E ok \in BOOLEAN :
       LET st == [setupSt EXCEPT
                    !.log = Append(@, LogEntry("mkdir", "NSJAIL_SELF",
                                               IF ok THEN "ok" ELSE "fail"))]
       IN  setupSt' = IF ok
                      THEN [st EXCEPT !.pc = "moveSelf", !.selfDir = TRUE]
                      ELSE SetupReturn(st, "fail", "mkdir")
  /\ UNCHANGED << conf, subtree, files, lifeVars, auxVars >>

\* moveSelfIntoChildCgroup line 76: write 0 to NSJAIL_SELF.<pid>/cgroup.procs.
SetupMoveSelf ==
  /\ setupSt.pc = "moveSelf"
  /\ \E ok \in BOOLEAN :
       LET st == [setupSt EXCEPT
                    !.log = Append(@, LogEntry("procs", "NSJAIL_SELF",
                                               IF ok THEN "ok" ELSE "fail"))]
       IN  setupSt' = IF ok
                      THEN [st EXCEPT !.pc = "retry", !.selfIn = TRUE]
                      ELSE SetupReturn(st, "fail", "procs")
  /\ UNCHANGED << conf, subtree, files, lifeVars, auxVars >>

\* enableCgroupSubtree lines 96-99: the second write of "+name".
SetupRetry ==
  /\ setupSt.pc = "retry"
  /\ \E ok \in BOOLEAN :
       LET name == Head(setupSt.todo)
           st   == [setupSt EXCEPT
                      !.log = Append(@, LogEntry("retry", name,
                                                 IF ok THEN "ok" ELSE "fail"))]
       IN  /\ setupSt' = IF ok THEN SetupEnabled(st)
                         ELSE SetupReturn(st, "fail", "retry")
           /\ subtree' = IF ok THEN subtree \cup {name} ELSE subtree
  /\ UNCHANGED << conf, files, lifeVars, auxVars >>

\* setup runs at start-up, before anything is spawned, on a root cgroup with
\* any of the kernel's controllers already enabled.
SetupInit ==
  /\ conf \in SetupConfigs
  /\ subtree \in SUBSET Controllers
  /\ setupSt = SetupIdle
  /\ files = NoFiles
  /\ LifecycleIdle
  /\ AuxIdle

SetupNext ==
  \/ SetupBegin
  \/ SetupRead
  \/ SetupWrite
  \/ SetupMkdirSelf
  \/ SetupMoveSelf
  \/ SetupRetry

SetupSpec == SetupInit /\ [][SetupNext]_vars

\* ------------------------------------------------ cgroup2::initNsFromParent
\* The first k operations of ops succeed: what they wrote, in order.
writesOf(ops, k) ==
  [i \in 1..k |-> [file |-> ops[i], bytes |-> valueWritten(conf, 1, ops[i])]]

\* One of initNsFromParentMem / Pids / Cpu has run for the child of pid 1:
\* its first k operations succeeded; a failure ends initNsFromParent.
filesAfter(f, ops, k, next) ==
  [ at      |-> IF k = Len(ops) THEN next ELSE f.at,
    ok      |-> k = Len(ops),
    written |-> f.written \o writesOf(ops, k) ]

CgInitMem ==
  /\ files.at = "mem"
  /\ files.ok
  /\ LET ops == initNsFromParentMem(conf) IN
     \E k \in 0..Len(ops) : files' = filesAfter(files, ops, k, "pids")
  /\ UNCHANGED << conf, subtree, setupSt, lifeVars, auxVars >>

CgInitPids ==
  /\ files.at = "pids"
  /\ files.ok
  /\ LET ops == initNsFromParentPids(conf) IN
     \E k \in 0..Len(ops) : files' = filesAfter(files, ops, k, "cpu")
  /\ UNCHANGED << conf, subtree, setupSt, lifeVars, auxVars >>

CgInitCpu ==
  /\ files.at = "cpu"
  /\ files.ok
  /\ LET ops == initNsFromParentCpu(conf) IN
     \E k \in 0..Len(ops) : files' = filesAfter(files, ops, k, "done")
  /\ UNCHANGED << conf, subtree, setupSt, lifeVars, auxVars >>

\* initNsFromParent for the first child, under any of the limits.
CgInit ==
  /\ conf \in LimitConfigs
  /\ subtree = {}
  /\ setupSt = SetupIdle
  /\ files = NoFiles
  /\ LifecycleIdle
  /\ AuxIdle

CgNext ==
  \/ CgInitMem
  \/ CgInitPids
  \/ CgInitCpu

CgSpec == CgInit /\ [][CgNext]_vars

\* --------------------------------------- reapProc(pid): the classification
\* The CPU limits a jail may be configured with, and the times wait4 reports.
RlCpus == {0, 1, 2, RLIM64_INFINITY}
Timevals == [tv_sec : {0, 1, 2}, tv_usec : {0, 500000, 999999}]
WaitStatuses == {Exited(0), Signaled(SIGXCPU), Signaled(SIGKILL),
                 Signaled(SIGSYS)}

\* addProc for one child: the record keeps the limit of the configuration.
ClsAddProc ==
  /\ cpuCls.at = "spawn"
  /\ cpuCls' = [cpuCls EXCEPT
                  !.at = "running",
                  !.cpu_rl_max = storedCpuRlMax(cpuCls.disable_rl,
                                                cpuCls.rl_cpu)]
  /\ UNCHANGED << conf, subtree, setupSt, files, lifeVars, stats, sysExe,
                  cloneSt >>

\* reapProc(pid): wait4 returns the child's status and usage, and the line
\* is logged.
ClsReap ==
  /\ cpuCls.at = "running"
  /\ \E st \in WaitStatuses, ut \in Timevals, stm \in Timevals :
       cpuCls' = [cpuCls EXCEPT
                    !.at = "reaped", !.status = st,
                    !.ru_utime = ut, !.ru_stime = stm,
                    !.class = classify(st, cpuCls.cpu_rl_max, ut, stm)]
  /\ UNCHANGED << conf, subtree, setupSt, files, lifeVars, stats, sysExe,
                  cloneSt >>

\* One child about to be registered, under any rlimit configuration.
ClsInit ==
  /\ conf \in Configs
  /\ subtree = {}
  /\ setupSt = SetupIdle
  /\ files = NoFiles
  /\ LifecycleIdle
  /\ stats = StatsIdle
  /\ sysExe = SysExeIdle
  /\ cloneSt = CloneIdle
  /\ \E d \in BOOLEAN, r \in RlCpus :
       cpuCls = [ at |-> "spawn", disable_rl |-> d, rl_cpu |-> r,
                  cpu_rl_max |-> RLIM64_INFINITY, status |-> NoStatus,
                  ru_utime |-> [tv_sec |-> 0, tv_usec |-> 0],
                  ru_stime |-> [tv_sec |-> 0, tv_usec |-> 0],
                  class |-> "none" ]

ClsNext ==
  \/ ClsAddProc
  \/ ClsReap

ClsSpec == ClsInit /\ [][ClsNext]_vars

\* ------------------------------------------------------------ removeCgroup
\* What a line of an accounting file may hold after its key: numbers up to
\* and beyond LLONG_MAX, negative ones, no digits, bytes after the number.
LineTexts ==
  { << "\n" >>,
    << "0", "\n" >>,
    << "7", "\n" >>,
    << "1", "2", "\n" >>,
    << "1", "2", "7", "\n" >>,
    << "1", "2", "8", "\n" >>,
    << "9", "9", "9", "\n" >>,
    << "-", "1", "\n" >>,
    << "-", "\n" >>,
    << "x", "\n" >>,
    << "7", "x", "\n" >>,
    << "7", " ", "\n" >>,
    << " ", "7", "\n" >>,
    << "+", "7", "\n" >>,
    << "7", " ", "x", "\n" >> }

\* memory.peak may also be empty or lack the newline.
FileTexts == LineTexts \cup { << >>, << "7" >> }

\* cpu.stat: usage_usec first, then the user_usec and system_usec lines
\* that are there.
cpuStatContent(hasUser, tu, hasSys, ts) ==
  << "u", "s", "a", "g", "e", "_", "u", "s", "e", "c", " ", "9", "\n" >>
  \o (IF hasUser THEN user_usec_key \o tu ELSE << >>)
  \o (IF hasSys THEN system_usec_key \o ts ELSE << >>)

\* removeCgroup is entered for one NSJAIL.<pid>.
StatsBegin ==
  /\ stats.at = "none"
  /\ stats' = [ at |-> "peak", peakOpen |-> FALSE, peakText |-> << >>,
                cpuOpen |-> FALSE, hasUser |-> FALSE, userText |-> << >>,
                hasSys |-> FALSE, sysText |-> << >>,
                memory_peak_bytes |-> -1, user_usec |-> -1,
                system_usec |-> -1, total_cpu_usec |-> -1 ]
  /\ UNCHANGED << conf, subtree, setupSt, files, lifeVars, cpuCls, sysExe,
                  cloneSt >>

\* Lines 130-183: memory.peak.
StatsReadPeak ==
  /\ stats.at = "peak"
  /\ \/ stats' = [stats EXCEPT !.at = "cpu"]
     \/ \E t \in FileTexts :
          stats' = [stats EXCEPT !.at = "cpu", !.peakOpen = TRUE,
                                 !.peakText = t,
                                 !.memory_peak_bytes = readMemoryPeak(t)]
  /\ UNCHANGED << conf, subtree, setupSt, files, lifeVars, cpuCls, sysExe,
                  cloneSt >>

\* Lines 185-304: cpu.stat and the total.
StatsReadCpu ==
  /\ stats.at = "cpu"
  /\ \/ stats' = [stats EXCEPT !.at = "done"]
     \/ \E hasUser \in BOOLEAN, hasSys \in BOOLEAN,
           tu \in LineTexts, ts \in LineTexts :
          LET r == readCpuStat(cpuStatContent(hasUser, tu, hasSys, ts),
                               -1, -1)
          IN  \E tot \in totalCpuUsec(r.user_usec, r.system_usec) :
                stats' = [stats EXCEPT
                            !.at = "done", !.cpuOpen = TRUE,
                            !.hasUser = hasUser,
                            !.userText = IF hasUser THEN tu ELSE << >>,
                            !.hasSys = hasSys,
                            !.sysText = IF hasSys THEN ts ELSE << >>,
                            !.user_usec = r.user_usec,
                            !.system_usec = r.system_usec,
                            !.total_cpu_usec = tot]
  /\ UNCHANGED << conf, subtree, setupSt, files, lifeVars, cpuCls, sysExe,
                  cloneSt >>

\* A jail with a memory cap, so that finishFromParent calls removeCgroup.
StatsInit ==
  /\ conf = nsjconf(1, -1, 0, 0)
  /\ subtree = {}
  /\ setupSt = SetupIdle
  /\ files = NoFiles
  /\ LifecycleIdle
  /\ AuxIdle

StatsNext ==
  \/ StatsBegin
  \/ StatsReadPeak
  \/ StatsReadCpu

StatsSpec == StatsInit /\ [][StatsNext]_vars

\* --------------------------------------------------------------- systemExe
\* The helper (the forked child) ends: its descriptors close.
helperEnds(x, st) ==
  [x EXCEPT !.helper = "zombie", !.status = st, !.writers = @ - 1]

\* systemExe returns.
sysReturn(x, r) == [x EXCEPT !.at = "returned", !.ret = r]

\* systemExe is called (again, after it has returned); nothing has happened
\* yet in this call.
SysBegin ==
  /\ sysExe.at \in {"none", "returned"}
  /\ sysExe.calls < MaxSysExeCalls
  /\ sysExe' = [SysExeIdle EXCEPT !.at = "pipe2",
                                  !.calls = sysExe.calls + 1,
                                  !.prev = sysExe.ret]
  /\ UNCHANGED << conf, subtree, setupSt, files, lifeVars, cpuCls, stats,
                  cloneSt >>

\* Lines 673-677: pipe2.
SysPipe2 ==
  /\ sysExe.at = "pipe2"
  /\ \E ok \in BOOLEAN :
       sysExe' = IF ok THEN [sysExe EXCEPT !.at = "fork"]
                 ELSE sysReturn(sysExe, -1)
  /\ UNCHANGED << conf, subtree, setupSt, files, lifeVars, cpuCls, stats,
                  cloneSt >>

\* Lines 679-685 and 694: fork; the parent closes its write end, so the
\* helper holds the only one.
SysFork ==
  /\ sysExe.at = "fork"
  /\ \E ok \in BOOLEAN :
       sysExe' = IF ok
                 THEN [sysExe EXCEPT !.at = "read", !.helper = "execve",
                                     !.forked = TRUE, !.writers = 1]
                 ELSE sysReturn(sysExe, -1)
  /\ UNCHANGED << conf, subtree, setupSt, files, lifeVars, cpuCls, stats,
                  cloneSt >>

\* Lines 688-689 in the helper: execve; on success O_CLOEXEC closes the
\* write end.
HelperExecve ==
  /\ sysExe.helper = "execve"
  /\ \E ok \in BOOLEAN :
       sysExe' = IF ok
                 THEN [sysExe EXCEPT !.helper = "running", !.execve = "ok",
                                     !.writers = @ - 1]
                 ELSE [sysExe EXCEPT !.helper = "writeA",
                                     !.execve = "failed"]
  /\ UNCHANGED << conf, subtree, setupSt, files, lifeVars, cpuCls, stats,
                  cloneSt >>

\* Line 691 in the helper: writeToFd(sv[1], "A", 1).
HelperWriteA ==
  /\ sysExe.helper = "writeA"
  /\ sysExe' = [sysExe EXCEPT !.helper = "exit", !.pipe = Append(@, "A")]
  /\ UNCHANGED << conf, subtree, setupSt, files, lifeVars, cpuCls, stats,
                  cloneSt >>

\* Line 692 in the helper: exit(0).
HelperExit0 ==
  /\ sysExe.helper = "exit"
  /\ sysExe' = helperEnds(sysExe, Exited(0))
  /\ UNCHANGED << conf, subtree, setupSt, files, lifeVars, cpuCls, stats,
                  cloneSt >>

\* The program that was exec'ed exits.
HelperProgramExits ==
  /\ sysExe.helper = "running"
  /\ \E c \in {0, 1, 2} :
       sysExe' = [sysExe EXCEPT !.helper = "zombie", !.status = Exited(c)]
  /\ UNCHANGED << conf, subtree, setupSt, files, lifeVars, cpuCls, stats,
                  cloneSt >>

\* The helper is killed by a signal, wherever it is.
HelperKilled ==
  /\ sysExe.helper \in {"execve", "writeA", "exit", "running"}
  /\ \E sig \in {SIGKILL, SIGPIPE} :
       sysExe' = [sysExe EXCEPT
                    !.helper = "zombie", !.status = Signaled(sig),
                    !.writers = IF sysExe.helper = "running" THEN @
                                ELSE @ - 1]
  /\ UNCHANGED << conf, subtree, setupSt, files, lifeVars, cpuCls, stats,
                  cloneSt >>

\* Lines 695-700: the read blocks until a byte or end of file.
SysRead ==
  /\ sysExe.at = "read"
  /\ sysExe.pipe # << >> \/ sysExe.writers = 0
  /\ sysExe' = [sysExe EXCEPT !.at = "wait4",
                              !.exec_failed = sysExe.pipe # << >>,
                              !.pipe = << >>]
  /\ UNCHANGED << conf, subtree, setupSt, files, lifeVars, cpuCls, stats,
                  cloneSt >>

\* Lines 712-728: the value returned for the status wait4 gave.
sysResult(st, exec_failed) ==
  IF st.kind = "exited"
  THEN IF exec_failed THEN -1 ELSE IF st.val = 0 THEN 0 ELSE 1
  ELSE 2

\* Lines 702-711: wait4 is interrupted and retried.
SysWait4Eintr ==
  /\ sysExe.at = "wait4"
  /\ sysExe' = [sysExe EXCEPT !.eintr = TRUE]
  /\ UNCHANGED << conf, subtree, setupSt, files, lifeVars, cpuCls, stats,
                  cloneSt >>

\* Lines 702-728: wait4 fails for good, or returns the helper's status.
SysWait4 ==
  /\ sysExe.at = "wait4"
  /\ \/ sysExe' = [sysReturn(sysExe, -1) EXCEPT !.waitErr = TRUE]
     \/ /\ sysExe.helper = "zombie"
        /\ sysExe' = [sysReturn(sysExe,
                                sysResult(sysExe.status, sysExe.exec_failed))
                        EXCEPT !.helper = "reaped"]
  /\ UNCHANGED << conf, subtree, setupSt, files, lifeVars, cpuCls, stats,
                  cloneSt >>

SysInit ==
  /\ conf = nsjconf(0, -1, 0, 0)
  /\ subtree = {}
  /\ setupSt = SetupIdle
  /\ files = NoFiles
  /\ LifecycleIdle
  /\ AuxIdle

SysNext ==
  \/ SysBegin
  \/ SysPipe2
  \/ SysFork
  \/ HelperExecve
  \/ HelperWriteA
  \/ HelperExit0
  \/ HelperProgramExits
  \/ HelperKilled
  \/ SysRead
  \/ SysWait4Eintr
  \/ SysWait4

SysSpec == SysInit /\ [][SysNext]_vars

\* --------------------------------------------------------------- cloneProc
\* The flags a caller may pass (CLONE_NEWNS stands for the namespace flags
\* that need no special treatment), and the kernels cloneProc may run on:
\* without clone3, with clone3 but without CLONE_CLEAR_SIGHAND, with both.
CloneFlags == {"CLONE_VM", "CLONE_NEWTIME", "CLONE_NEWNS"}
Kernels == {"noClone3", "noClearSighand", "modern"}

\* What a kernel may answer to clone3 with the given flags: a pid of the new
\* process (1 stands for any), or -1 with an errno.
clone3Results(kernel, clearSighand) ==
  IF kernel = "noClone3" THEN { [ret |-> -1, errno |-> "ENOSYS"] }
  ELSE IF kernel = "noClearSighand" /\ clearSighand
  THEN { [ret |-> -1, errno |-> "EINVAL"] }
  ELSE { [ret |-> 1, errno |-> "none"], [ret |-> -1, errno |-> "EAGAIN"],
         [ret |-> -1, errno |-> "EPERM"] }

\* What clone() may answer.
cloneResults ==
  { [ret |-> 1, errno |-> "none"], [ret |-> -1, errno |-> "EAGAIN"] }

\* One attempt and its answer, as the parent sees it.
Attempt(path, clearSighand, r) ==
  [path |-> path, clearSighand |-> clearSighand, ret |-> r.ret,
   errno |-> r.errno]

\* cloneProc returns r in the parent; a process that was created returns 0
\* from the same call, kept in childRet (clone3 returns 0 in it; after clone() it runs
\* cloneFunc, whose longjmp makes setjmp return 1 and cloneProc return 0).
cloneReturn(x, r) ==
  [x EXCEPT !.at = "returned", !.ret = r.ret, !.errno = r.errno,
            !.childRet = IF r.ret > 0 THEN << 0 >> ELSE << >>]

\* A faulty test that falls through to clone() after any failure (C26 must
\* notice it).
fallsThrough_anyError(r) == r.ret = -1

\* Line 637: the second clone3 failed because there is no such syscall.
fallsThrough(r) == ~(r.ret # -1 \/ r.errno # "ENOSYS")

\* cloneProc is called.
CloneBegin ==
  /\ cloneSt.at \in {"none", "returned"}
  /\ cloneSt.calls < MaxCloneCalls
  /\ \E fl \in SUBSET CloneFlags, k \in Kernels :
       cloneSt' = [CloneIdle EXCEPT !.at = "checkVm", !.flags = fl,
                                    !.kernel = k,
                                    !.calls = cloneSt.calls + 1,
                                    !.prev = cloneSt.ret]
  /\ UNCHANGED << conf, subtree, setupSt, files, lifeVars, cpuCls, stats,
                  sysExe >>

\* Lines 610-619: CLONE_VM is refused; CLONE_NEWTIME is warned about.
CloneCheckVm ==
  /\ cloneSt.at = "checkVm"
  /\ cloneSt' = IF "CLONE_VM" \in cloneSt.flags
                THEN cloneReturn(cloneSt, [ret |-> -1, errno |-> "none"])
                ELSE [cloneSt EXCEPT !.at = "clone3Clear"]
  /\ UNCHANGED << conf, subtree, setupSt, files, lifeVars, cpuCls, stats,
                  sysExe >>

\* Lines 622-629: clone3 with CLONE_CLEAR_SIGHAND.
CloneTryClear ==
  /\ cloneSt.at = "clone3Clear"
  /\ \E r \in clone3Results(cloneSt.kernel, TRUE) :
       LET x == [cloneSt EXCEPT
                   !.attempts = Append(@, Attempt("clone3", TRUE, r))]
       IN  cloneSt' = IF r.ret # -1 THEN cloneReturn(x, r)
                      ELSE [x EXCEPT !.at = "clone3Plain"]
  /\ UNCHANGED << conf, subtree, setupSt, files, lifeVars, cpuCls, stats,
                  sysExe >>

\* Lines 635-639: clone3 without CLONE_CLEAR_SIGHAND.
CloneTryPlain ==
  /\ cloneSt.at = "clone3Plain"
  /\ \E r \in clone3Results(cloneSt.kernel, FALSE) :
       LET x == [cloneSt EXCEPT
                   !.attempts = Append(@, Attempt("clone3", FALSE, r))]
       IN  cloneSt' = IF fallsThrough(r)
                      THEN [x EXCEPT !.at = "checkNewtime"]
                      ELSE cloneReturn(x, r)
  /\ UNCHANGED << conf, subtree, setupSt, files, lifeVars, cpuCls, stats,
                  sysExe >>

\* Lines 642-646: without clone3 CLONE_NEWTIME cannot be had.
CloneCheckNewtime ==
  /\ cloneSt.at = "checkNewtime"
  /\ cloneSt' = IF "CLONE_NEWTIME" \in cloneSt.flags
                THEN cloneReturn(cloneSt, [ret |-> -1, errno |-> "none"])
                ELSE [cloneSt EXCEPT !.at = "clone"]
  /\ UNCHANGED << conf, subtree, setupSt, files, lifeVars, cpuCls, stats,
                  sysExe >>

\* Lines 648-660: clone() on the static stack.
CloneLegacy ==
  /\ cloneSt.at = "clone"
  /\ \E r \in cloneResults :
       cloneSt' = cloneReturn(
                    [cloneSt EXCEPT
                       !.attempts = Append(@, Attempt("clone", FALSE, r))],
                    r)
  /\ UNCHANGED << conf, subtree, setupSt, files, lifeVars, cpuCls, stats,
                  sysExe >>

CloneInit ==
  /\ conf = nsjconf(0, -1, 0, 0)
  /\ subtree = {}
  /\ setupSt = SetupIdle
  /\ files = NoFiles
  /\ LifecycleIdle
  /\ AuxIdle

CloneNext ==
  \/ CloneBegin
  \/ CloneCheckVm
  \/ CloneTryClear
  \/ CloneTryPlain
  \/ CloneCheckNewtime
  \/ CloneLegacy

CloneSpec == CloneInit /\ [][CloneNext]_vars

\* ------------------------------------------------------------------ claims
\* The supervisor is inside reapProc(nsjconf)'s drain loop, holding a peeked
\* pid in cur.
InDrainOf(p) == mode = "drain" /\ pc \in {"seccomp", "wait4"} /\ cur = p

\* runChild has returned a failure that arose after clone produced cur.
FailedAfterClone ==
  /\ pc = "idle"
  /\ mode = "runChild"
  /\ lastFail \in {"net", "user", "done", "childerr"}

\* C1: the record of child P is inserted after clone returned P and before
\* DONE is written to P; every child the drain loop has peeked, or is about
\* to consume, has a record, however early the child died.  An unreaped child
\* lacks a record only while runChild sits between cloneProc and addProc.
C1_RecordBeforeReap ==
  /\ pc \in {"initNet", "initCgroup", "initUser", "writeDone", "readRcv"}
       => cur \in DOMAIN pids
  /\ \A p \in PIDs : chan[p].toChild # << >> => p \in DOMAIN pids
  /\ \A p \in PIDs : InDrainOf(p) => p \in DOMAIN pids
  /\ \A p \in PIDs :
       (IsLive(p) \/ IsZombie(p))
         => (p \in DOMAIN pids \/ (pc = "addProc" /\ cur = p))

\* C1 witness: the drain loop is about to consume a child that was killed
\* before it read anything from the handshake, and the record is there.
C1_Witness ==
  /\ mode = "drain"
  /\ pc = "wait4"
  /\ IsZombie(cur)
  /\ child[cur].status = Signaled(SIGKILL)
  /\ cg[cur] = NoCgroup
  /\ cur \in DOMAIN pids

\* C2 (as stated): whenever the record of P has left the registry and
\* NSJAIL.P was created by per-child init, an rmdir of NSJAIL.P was attempted.
\* The record leaves the registry exactly when its descriptor is closed.
C2_RmdirOnEveryRemoval ==
  \A p \in PIDs :
    (p \notin DOMAIN pids /\ fd[p] = "closed" /\ cg[p].created) => cg[p].rmdir

\* C3: on a reap that tears the cgroup down, the status is consumed, then the
\* accounting files are read, then rmdir is attempted, then the record is
\* removed.
C3_ReapOrder ==
  \A p \in PIDs :
    /\ cg[p].statsRead => child[p].pc = "reaped"
    /\ cg[p].rmdir => cg[p].statsRead
    /\ (fd[p] = "closed" /\ finishFromParent(conf))
         => (cg[p].rmdir /\ cg[p].statsRead /\ child[p].pc = "reaped")
    /\ (pc \in {"cgStats", "cgRmdir"} /\ cur = p) => p \in DOMAIN pids

\* C3 witness: the record is about to be removed, after the rmdir attempt.
C3_Witness ==
  /\ pc = "removeProc"
  /\ cur \in DOMAIN pids
  /\ cg[cur].created
  /\ cg[cur].statsRead
  /\ cg[cur].rmdir
  /\ child[cur].pc = "reaped"

\* C4 (as stated): no failure of the parent-side setup of one child ends the
\* supervisor.
C4_SupervisorSurvives == pc # "exited"

\* C5 (as stated): when the parent-side setup fails after clone, the parent
\* has sent child P a kill signal and closed the handshake descriptor by the
\* time runChild returns failure.
C5_KillsChildOnFailure ==
  FailedAfterClone =>
    /\ \E i \in 1..Len(sigs[cur]) : sigs[cur][i] = SIGKILL
    /\ ~chan[cur].parentEnd

\* C5 (amended): when the parent-side setup fails after clone, runChild closes
\* its handshake descriptor and returns -1; it sends child P no signal and
\* keeps P's record.  P has not got past the handshake read, or has failed
\* and is on its way out.
C5_ClosesOnFailure ==
  FailedAfterClone =>
    /\ ret = -1
    /\ ~chan[cur].parentEnd
    /\ sv.parent_fd = "closed"
    /\ sigs[cur] = << >>
    /\ cur \in DOMAIN pids
    /\ child[cur].pc \in {"setupFD", "resetEnv", "readDone", "sendErr",
                          "fatal", "zombie"}

\* C5 witness: runChild has returned failure and the child is still alive.
C5_Witness ==
  /\ FailedAfterClone
  /\ lastFail = "user"
  /\ IsLive(cur)

\* runChild has returned (pc idle, mode runChild) after reading parent_fd.
ReturnedAfterRead == pc = "idle" /\ mode = "runChild" /\ rcv # "none"

\* The child side of C6: a child whose handshake read hit EOF is on its
\* failure path, and a child past the read has read 'D'.
ChildStopsOnEof ==
  \A p \in PIDs :
    /\ chan[p].childRead = "EOF" => child[p].pc \in {"sendErr", "fatal"}
    /\ child[p].pc \in {"containProc", "env", "applyPolicy", "exec", "running"}
         => chan[p].childRead = kSubprocDoneChar

\* C6 (as stated): EOF or a short read is a failure for both readers: the
\* child does not go on to containment or exec, and runChild returns failure
\* instead of the child's PID.
C6_EofFailsBothSides ==
  /\ ChildStopsOnEof
  /\ (ReturnedAfterRead /\ rcv = "EOF") => ret = -1

\* C6 (amended): EOF or a short read stops the child; in the parent only a
\* received 'E' makes runChild return -1, and on EOF (which is what a
\* successful exec produces) runChild returns the child's PID.
C6_OnlyErrorByteFailsParent ==
  /\ ChildStopsOnEof
  /\ (ReturnedAfterRead /\ rcv = "EOF")
       => (ret = cur /\ cur \in PIDs /\ lastFail = "none")
  /\ (ReturnedAfterRead /\ rcv = kSubprocErrorChar)
       => (ret = -1 /\ lastFail = "childerr")

\* C6 witness: the parent read EOF because the child exec'ed, and runChild
\* returned the PID.
C6_Witness ==
  /\ ReturnedAfterRead
  /\ rcv = "EOF"
  /\ ret = cur
  /\ child[cur].pc = "running"

\* The order of newProc's steps as the claims state it.
BootOrder == << "setupFD", "resetEnv", "readDone", "containProc", "env",
                "applyPolicy", "exec", "running" >>
BootSteps == {BootOrder[i] : i \in 1..7}

\* C7: the child takes its bootstrap steps in the order setupFD, resetEnv,
\* handshake read, containProc, environment, applyPolicy, exec; it enters
\* containProc only on having read 'D'; after applyPolicy only exec follows.
C7_BootstrapOrder ==
  [][ \A p \in PIDs :
        LET a == child[p].pc
            b == child'[p].pc
        IN  /\ (a # b /\ b \in BootSteps \cup {"running"})
                 => \/ (a = "none" /\ b = BootOrder[1])
                    \/ \E i \in 1..7 : a = BootOrder[i] /\ b = BootOrder[i + 1]
            /\ (a # b /\ b = "containProc")
                 => (chan[p].toChild # << >>
                     /\ Head(chan[p].toChild) = kSubprocDoneChar
                     /\ chan'[p].childRead = kSubprocDoneChar)
            /\ (a = "applyPolicy" /\ a # b) => b \in {"exec", "sendErr", "zombie"}
            /\ (a = "exec" /\ a # b) => b \in {"running", "sendErr", "zombie"}
    ]_vars

\* C7 witness: a child has gone through every step and exec'ed its target.
C7_Witness ==
  \E p \in PIDs :
    child[p].pc = "running" /\ chan[p].childRead = kSubprocDoneChar

\* C8: a child whose bootstrap step fails goes on to write 'E' and then ends
\* with LOG_F; a failed child never resumes the bootstrap, never runs the
\* target, and no step of a child changes the registry.
C8_FailedChildReportsAndDies ==
  [][ \A p \in PIDs :
        LET a == child[p].pc
            b == child'[p].pc
        IN  /\ (a \in BootSteps /\ a # b)
                 => b \in BootSteps \cup {"running", "sendErr", "zombie"}
            /\ (a = "sendErr" /\ a # b)
                 => \/ /\ b = "fatal"
                       /\ chan'[p].errWrite \in {"sent", "failed"}
                       /\ chan[p].parentEnd
                            => chan'[p].toParent =
                                 Append(chan[p].toParent, kSubprocErrorChar)
                    \/ b = "zombie"
            /\ (a = "fatal" /\ a # b)
                 => (b = "zombie"
                     /\ child'[p].status \in {Exited(FatalExitCode),
                                              Signaled(SIGKILL)})
            /\ (a \in BootPcs /\ child'[p] # child[p]) => pids' = pids
    ]_vars

\* C8 witness: a child has written 'E' and is about to end.
C8_Witness ==
  \E p \in PIDs : child[p].pc = "fatal" /\ chan[p].errWrite = "sent"

\* C9: the drain loop peeks without consuming; for a child peeked as killed
\* by SIGSYS, seccompViolation reads the record's descriptor while the child
\* is a zombie, the record present and the descriptor open, before wait4.
C9_SeccompBeforeConsume ==
  /\ \A p \in PIDs : InDrainOf(p) => IsZombie(p)
  /\ pc = "seccomp"
       => /\ mode = "drain"
          /\ child[cur].status = Signaled(SIGSYS)
          /\ cur \in DOMAIN pids
          /\ fd[cur] = "open"
  /\ (mode = "drain" /\ pc = "wait4" /\ child[cur].status = Signaled(SIGSYS))
       => cur \in diag
  /\ \A p \in diag : p \in DOMAIN pids /\ fd[p] = "open"

\* C9 witness: the diagnostics have run and the child is still unreaped.
C9_Witness ==
  /\ mode = "drain"
  /\ pc = "wait4"
  /\ cur \in diag
  /\ IsZombie(cur)

\* C10: the result of a consumed child is its exit code, or 128 plus the
\* signal number; its record is removed; a drain pass returns the result of
\* the last child it consumed, and 0 when it consumed none.
C10_DrainResult ==
  LET result == IF status = NoStatus THEN 0
                ELSE IF status.kind = "exited" THEN status.val
                ELSE 128 + status.val
  IN  /\ (mode = "drain" /\ pc \in {"peek", "sweep"}) => rv = result
      /\ (mode = "drain" /\ pc = "idle") => ret = result
      /\ \A p \in PIDs :
           (child[p].pc = "reaped"
              /\ ~(cur = p /\ pc \in {"cgStats", "cgRmdir", "removeProc"}))
             => p \notin DOMAIN pids

\* C10 witness: a pass has returned 128 + SIGKILL for a killed child.
C10_Witness ==
  /\ mode = "drain"
  /\ pc = "idle"
  /\ status = Signaled(SIGKILL)
  /\ ret = 128 + SIGKILL

\* C11: the sweep that ends a drain pass sends SIGCONT and then SIGKILL to
\* every record of age >= tlimit (age = tlimit included) when tlimit > 0, and
\* nothing to any other record, nor to any record when tlimit = 0; it removes
\* no record and closes no descriptor.
C11_SweepSignals ==
  [][ (pc = "sweep" /\ pc' # "sweep")
        => /\ \A p \in PIDs :
                LET due == /\ p \in DOMAIN pids
                           /\ conf.tlimit > 0
                           /\ now - pids[p].start >= conf.tlimit
                IN  sigs'[p] = IF due THEN sigs[p] \o << SIGCONT, SIGKILL >>
                                      ELSE sigs[p]
           /\ pids' = pids
           /\ fd' = fd
    ]_vars

\* C11 witness: a pass has returned after signalling a record of age exactly
\* tlimit and sparing a younger one.
C11_Witness ==
  /\ pc = "idle"
  /\ mode = "drain"
  /\ \E p \in DOMAIN pids :
       now - pids[p].start = conf.tlimit /\ sigs[p] = << SIGCONT, SIGKILL >>
  /\ \E q \in DOMAIN pids :
       now - pids[q].start < conf.tlimit /\ sigs[q] = << >>

\* The record killAndReapAll picks: nsjconf->pids.begin().
FirstPid == CHOOSE p \in DOMAIN pids : \A q \in DOMAIN pids : p <= q

C13_FdClosedOnceAtRemoval ==
  /\ [](\A p \in PIDs :
          /\ fd[p] # "badclose"
          /\ fd[p] = "open" <=> p \in DOMAIN pids)
  /\ [][ \A p \in PIDs :
           /\ fd'[p] # fd[p]
                => \/ (fd[p] = "none" /\ fd'[p] = "open"
                       /\ p \notin DOMAIN pids /\ p \in DOMAIN pids')
                   \/ (fd[p] = "open" /\ fd'[p] = "closed"
                       /\ p \in DOMAIN pids /\ p \notin DOMAIN pids')
           /\ (p \in DOMAIN pids /\ p \notin DOMAIN pids') => fd'[p] = "closed"
     ]_vars

\* C13 witness: one record has been removed and its descriptor closed while
\* another record is in the registry with its descriptor open.
C13_Witness ==
  \E p, q \in PIDs :
    /\ fd[p] = "closed" /\ p \notin DOMAIN pids
    /\ fd[q] = "open" /\ q \in DOMAIN pids

\* C14: whenever the supervisor is between operations, every pid in the
\* registry is a child that clone returned and that has not been reaped.
C14_RegistryMatchesKernel ==
  pc = "idle"
    => \A p \in DOMAIN pids :
         /\ p \in PIDs
         /\ p < nextPid
         /\ (IsLive(p) \/ IsZombie(p))

\* C14 witness: between operations the registry holds a running child and a
\* zombie.
C14_Witness ==
  /\ pc = "idle"
  /\ \E p, q \in DOMAIN pids : IsLive(p) /\ IsZombie(q)

\* What cgroup2::setup did in the call it is in or has last returned from.
SetupLog == setupSt.log

\* An entry of the log after which setup returns false.
IsFailure(e) ==
  \/ e.op = "write" /\ e.res \notin {"ok", "EBUSY"}
  \/ e.op \in {"mkdir", "procs", "retry"} /\ e.res # "ok"

\* C15: in Setup, a first write of '+name' that fails with EBUSY is followed by
\* the creation of NSJAIL_SELF.<pid>, then by the write of 0 to its
\* cgroup.procs, then by exactly one retry of the same '+name'; any other
\* failure of the first write, a failed mkdir or procs write, or a failed
\* retry is the last thing Setup does and Setup returns failure; NSJAIL_SELF
\* is created only right after a write that failed with EBUSY.
C15_EbusyRetryOnce ==
  /\ [](\A i \in 1..Len(SetupLog) :
          LET e    == SetupLog[i]
              last == i = Len(SetupLog)
          IN  /\ e.op = "write" /\ e.res = "EBUSY" =>
                   IF last THEN setupSt.pc = "mkdirSelf"
                   ELSE SetupLog[i + 1].op = "mkdir"
              /\ e.op = "mkdir" =>
                   /\ i > 1
                   /\ SetupLog[i - 1].op = "write"
                   /\ SetupLog[i - 1].res = "EBUSY"
                   /\ e.res = "ok" =>
                        IF last THEN setupSt.pc = "moveSelf"
                        ELSE SetupLog[i + 1].op = "procs"
              /\ e.op = "procs" =>
                   /\ SetupLog[i - 1].op = "mkdir"
                   /\ e.res = "ok" =>
                        IF last THEN setupSt.pc = "retry"
                        ELSE /\ SetupLog[i + 1].op = "retry"
                             /\ SetupLog[i + 1].name = SetupLog[i - 2].name
              /\ e.op = "retry" =>
                   /\ i > 3
                   /\ SetupLog[i - 1].op = "procs"
                   /\ ~last => /\ SetupLog[i + 1].op = "write"
                               /\ SetupLog[i + 1].name # e.name
              /\ IsFailure(e) =>
                   last /\ setupSt.pc = "idle" /\ setupSt.ret = "fail")
  /\ [][ setupSt'.selfDir /\ ~setupSt.selfDir =>
           /\ SetupLog # << >>
           /\ SetupLog[Len(SetupLog)].op = "write"
           /\ SetupLog[Len(SetupLog)].res = "EBUSY" ]_vars
  /\ [][ setupSt'.selfIn /\ ~setupSt.selfIn => setupSt.selfDir ]_vars

\* Setup has succeeded after an EBUSY, the self-migration and a retry.
C15_Witness ==
  /\ setupSt.pc = "idle"
  /\ setupSt.ret = "ok"
  /\ \E i \in 1..Len(SetupLog) :
       SetupLog[i].op = "retry" /\ SetupLog[i].res = "ok"

\* setup has been called again after a call that returned true.
SetupAgain == setupSt.calls > 1 /\ setupSt.prev = "ok"

\* C16: a call of Setup that follows a successful one, with the same
\* configuration and with subtree_control listing what was enabled, writes
\* nothing to cgroup.subtree_control, does not create or enter NSJAIL_SELF,
\* and, having read subtree_control, returns success.
C16_SetupIdempotent ==
  /\ [](SetupAgain =>
          /\ SetupLog = << >>
          /\ setupSt.pc \in {"read", "idle"}
          /\ setupSt.pc = "idle" /\ setupSt.why # "read" =>
               setupSt.ret = "ok")
  /\ [][ SetupAgain /\ SetupAgain' =>
           /\ subtree' = subtree
           /\ setupSt'.selfDir = setupSt.selfDir
           /\ setupSt'.selfIn = setupSt.selfIn ]_vars

\* The call after a Setup that had to enable controllers (it even moved
\* itself) has returned success.
C16_Witness ==
  /\ SetupAgain
  /\ setupSt.pc = "idle"
  /\ setupSt.ret = "ok"
  /\ setupSt.selfIn
  /\ neededControllers(conf) # << >>

\* The name is one of the space-separated words of the content read.
Listed(buf, name) ==
  \E i \in 1..(Len(buf) - Len(chars(name)) + 1) :
    LET j == i + Len(chars(name)) - 1
    IN  /\ SubSeq(buf, i, j) = chars(name)
        /\ i = 1 \/ buf[i - 1] = " "
        /\ j = Len(buf) \/ buf[j + 1] = " "

\* The controllers the configuration needs, in setup's order, from the
\* configuration's fields.
ConfNeeds ==
  (IF conf.cgroup_mem_max # 0 \/ derivedSwapMax(conf) >= 0
   THEN << "memory" >> ELSE << >>)
  \o (IF conf.cgroup_pids_max # 0 THEN << "pids" >> ELSE << >>)
  \o (IF conf.cgroup_cpu_ms_per_sec # 0 THEN << "cpu" >> ELSE << >>)

InSeq(x, seq) == \E i \in 1..Len(seq) : seq[i] = x

\* The controllers setup has written '+name' for in this call, in order (a
\* retry repeats the name of the write before it).
FirstWrites ==
  LET idx == {i \in 1..Len(SetupLog) : SetupLog[i].op = "write"}
      RECURSIVE names(_)
      names(i) == IF i > Len(SetupLog) THEN << >>
                  ELSE IF i \in idx THEN << SetupLog[i].name >> \o names(i + 1)
                  ELSE names(i + 1)
  IN  names(1)

\* C17 as stated: every '+name' setup writes is for a controller that the
\* configuration needs and that the content read does not list.
C17_OnlyMissingWritten ==
  \A i \in 1..Len(SetupLog) :
    SetupLog[i].op \in {"write", "retry"} =>
      /\ InSeq(SetupLog[i].name, ConfNeeds)
      /\ ~Listed(setupSt.buf, SetupLog[i].name)

\* C17 as amended: setup writes only when the content read lacks the name of
\* some needed controller; it then writes '+name' for the needed controllers
\* in the order memory, pids, cpu, each once (and once more after EBUSY),
\* the listed ones included, and no others; a setup that wrote and returned
\* success has written every needed controller.
C17_WritesEveryNeededWhenOneIsMissing ==
  /\ SetupLog # << >> =>
       \E i \in 1..Len(ConfNeeds) : ~strstr(setupSt.buf, chars(ConfNeeds[i]))
  /\ Len(FirstWrites) <= Len(ConfNeeds)
  /\ FirstWrites = SubSeq(ConfNeeds, 1, Len(FirstWrites))
  /\ \A i \in 1..Len(SetupLog) :
       SetupLog[i].op = "retry" => InSeq(SetupLog[i].name, FirstWrites)
  /\ setupSt.pc = "idle" /\ setupSt.ret = "ok" /\ SetupLog # << >> =>
       FirstWrites = ConfNeeds

\* Setup has succeeded and has written '+name' for a controller that the
\* content it read already listed.
C17_Witness ==
  /\ setupSt.pc = "idle"
  /\ setupSt.ret = "ok"
  /\ \E i \in 1..Len(SetupLog) :
       /\ SetupLog[i].op = "write"
       /\ Listed(setupSt.buf, SetupLog[i].name)

\* The bytes written to a file of NSJAIL.<pid>, one element per write.
Written(file) ==
  LET RECURSIVE pick(_)
      pick(i) == IF i > Len(files.written) THEN << >>
                 ELSE IF files.written[i].file = file
                      THEN << files.written[i].bytes >> \o pick(i + 1)
                      ELSE pick(i + 1)
  IN  pick(1)

\* initNsFromParentMem has returned true.
MemInitDone == files.at # "mem"

\* The number a sequence of decimal digits denotes; -1 if it is not one
\* (empty, a sign, a space, a newline, a leading zero before more digits).
DecimalValue(bytes) ==
  LET RECURSIVE val(_)
      val(n) == IF n = 0 THEN 0
                ELSE 10 * val(n - 1)
                     + (CHOOSE d \in 0..9 : Digit(d) = bytes[n])
      digits == \A i \in 1..Len(bytes) : \E d \in 0..9 : Digit(d) = bytes[i]
  IN  IF bytes = << >> \/ ~digits \/ (Len(bytes) > 1 /\ bytes[1] = "0")
      THEN -1
      ELSE val(Len(bytes))

\* C18 as stated: with memory cap 0, no mem+swap cap and swap-max 0 the
\* per-child init writes neither memory.max nor memory.swap.max.
C18_SwapZeroWritesNothing ==
  ( /\ MemInitDone
    /\ conf.cgroup_mem_max = 0
    /\ conf.cgroup_mem_memsw_max = 0
    /\ conf.cgroup_mem_swap_max = 0 )
  => Written("memory.max") = << >> /\ Written("memory.swap.max") = << >>

\* C18 as amended: with memory cap 0 and no mem+swap cap, a swap-max of 0 is
\* written to memory.swap.max as "0" and memory.max is not written; neither
\* file is written (nor anything else by the memory step) only when swap-max
\* is negative, that is, not given.
C18_SwapZeroIsWritten ==
  ( /\ MemInitDone
    /\ conf.cgroup_mem_max = 0
    /\ conf.cgroup_mem_memsw_max = 0 )
  => /\ Written("memory.max") = << >>
     /\ conf.cgroup_mem_swap_max = 0 =>
          Written("memory.swap.max") = << << "0" >> >>
     /\ conf.cgroup_mem_swap_max < 0 =>
          /\ Written("memory.swap.max") = << >>
          /\ files.at = "pids" /\ files.ok => files.written = << >>

\* The memory step has run with memory cap 0, no mem+swap cap and swap-max 0.
C18_Witness ==
  /\ files.at = "pids"
  /\ files.ok
  /\ conf.cgroup_mem_max = 0
  /\ conf.cgroup_mem_memsw_max = 0
  /\ conf.cgroup_mem_swap_max = 0
  /\ Written("memory.swap.max") # << >>

\* C19: once the memory step has succeeded: with a mem+swap cap given, the
\* value written to memory.swap.max is the true difference mem+swap - mem when
\* that is not negative, and nothing is written when it is negative; with only
\* swap-max >= 0 given, that value is written; with neither, memory.swap.max
\* is not written; memory.max is written only for a memory cap > 0.
C19_SwapMaxIsTrueDifference ==
  MemInitDone =>
    LET mem   == conf.cgroup_mem_max
        memsw == conf.cgroup_mem_memsw_max
        swap  == conf.cgroup_mem_swap_max
        swapW == Written("memory.swap.max")
    IN  /\ memsw > 0 /\ memsw >= mem =>
             Len(swapW) = 1 /\ DecimalValue(swapW[1]) = memsw - mem
        /\ memsw > 0 /\ memsw < mem => swapW = << >>
        /\ memsw = 0 /\ swap >= 0 =>
             Len(swapW) = 1 /\ DecimalValue(swapW[1]) = swap
        /\ memsw = 0 /\ swap < 0 => swapW = << >>
        /\ Written("memory.max") # << >> => mem > 0

\* C20: once the cpu step has succeeded for a quota ms_per_sec > 0, the one
\* write to cpu.max holds the decimal digits of the true product
\* ms_per_sec * 1000, one space, and 1000000, with nothing after it; for
\* ms_per_sec = 500 the bytes are "500000 1000000".
C20_CpuMaxIsTrueProduct ==
  files.at = "done" /\ conf.cgroup_cpu_ms_per_sec > 0 =>
    /\ Len(Written("cpu.max")) = 1
    /\ LET b == Written("cpu.max")[1] IN
       /\ \E sp \in 1..Len(b) :
            /\ b[sp] = " "
            /\ DecimalValue(SubSeq(b, 1, sp - 1))
                 = conf.cgroup_cpu_ms_per_sec * 1000
            /\ SubSeq(b, sp + 1, Len(b))
                 = << "1", "0", "0", "0", "0", "0", "0" >>
       /\ conf.cgroup_cpu_ms_per_sec = 500 =>
            b = << "5", "0", "0", "0", "0", "0", " ",
                   "1", "0", "0", "0", "0", "0", "0" >>

\* The CPU time the reaped child consumed, user + system, is at least n
\* seconds.
ConsumedAtLeast(n) ==
  LET sec  == cpuCls.ru_utime.tv_sec + cpuCls.ru_stime.tv_sec
      usec == cpuCls.ru_utime.tv_usec + cpuCls.ru_stime.tv_usec
  IN  sec + (usec \div 1000000) >= n

\* C21: a reaped child killed by SIGXCPU is logged as 'CPU soft limit
\* exceeded', and nothing else is; one killed by SIGKILL is logged as 'CPU
\* hard limit exceeded' exactly when rlimits are enabled, the configured CPU
\* limit is finite and the consumed time reaches it, and as plain SIGKILL
\* otherwise; with rlimits disabled nothing is logged as the hard limit.
C21_KillClassification ==
  cpuCls.at = "reaped" =>
    LET sig == IF cpuCls.status.kind = "signaled" THEN cpuCls.status.val
               ELSE 0
        hard == /\ ~cpuCls.disable_rl
                /\ cpuCls.rl_cpu # RLIM64_INFINITY
                /\ ConsumedAtLeast(cpuCls.rl_cpu)
    IN  /\ cpuCls.class = "CPU soft limit exceeded" <=> sig = SIGXCPU
        /\ cpuCls.class = "CPU hard limit exceeded" <=> sig = SIGKILL /\ hard
        /\ cpuCls.class = "killed by SIGKILL" <=> sig = SIGKILL /\ ~hard
        /\ cpuCls.disable_rl => cpuCls.class # "CPU hard limit exceeded"

\* A child killed by SIGKILL after consuming exactly its limit of 2 s is
\* logged as over the hard limit.
C21_Witness ==
  /\ cpuCls.at = "reaped"
  /\ cpuCls.status = Signaled(SIGKILL)
  /\ cpuCls.rl_cpu = 2
  /\ ~cpuCls.disable_rl
  /\ cpuCls.ru_utime = [tv_sec |-> 1, tv_usec |-> 500000]
  /\ cpuCls.ru_stime = [tv_sec |-> 0, tv_usec |-> 500000]
  /\ cpuCls.class = "CPU hard limit exceeded"

\* The bytes of t without the white space around them and without a leading
\* plus sign.
NumberPart(t) ==
  LET ns == {i \in 1..Len(t) : ~isspace(t[i])}
      lo == CHOOSE i \in ns : \A k \in ns : i <= k
      hi == CHOOSE i \in ns : \A k \in ns : i >= k
  IN  IF ns = {} THEN << >>
      ELSE IF t[lo] = "+" THEN SubSeq(t, lo + 1, hi)
      ELSE SubSeq(t, lo, hi)

\* What the claim has reported for a value whose text is t: its decimal if t
\* is a non-negative decimal that fits, -1 otherwise.
Reported(present, t) ==
  LET d == DecimalValue(NumberPart(t))
  IN  IF present /\ d >= 0 /\ d <= LLONG_MAX THEN d ELSE -1

\* C22: each of memory peak, user_usec and system_usec logged by
\* removeCgroup is the decimal in its file when that is a conformant
\* non-negative number in range, and -1 otherwise; the total is
\* user_usec + system_usec when both were parsed and -1 otherwise.
C22_StatsParsedOrMinusOne ==
  stats.at = "done" =>
    /\ stats.memory_peak_bytes = Reported(stats.peakOpen, stats.peakText)
    /\ stats.user_usec = Reported(stats.hasUser, stats.userText)
    /\ stats.system_usec = Reported(stats.hasSys, stats.sysText)
    /\ stats.total_cpu_usec =
         IF stats.user_usec >= 0 /\ stats.system_usec >= 0
         THEN stats.user_usec + stats.system_usec
         ELSE -1

\* C23: systemExe returns -1 when fork failed or the helper could not be
\* exec'ed, whatever became of the helper after that; otherwise 0 when the
\* helper exited with code 0, 1 when it exited with another code and 2 when a
\* signal killed it; an interrupted wait changes nothing (the cases where
\* pipe2 or wait4 itself failed aside).
C23_SystemExeResult ==
  ( /\ sysExe.at = "returned"
    /\ ~sysExe.waitErr
    /\ sysExe.calls > 0 )
  => sysExe.ret =
       IF ~sysExe.forked THEN -1
       ELSE IF sysExe.execve = "failed" THEN -1
       ELSE IF sysExe.status.kind = "signaled" THEN 2
       ELSE IF sysExe.status.val = 0 THEN 0
       ELSE 1

\* C24: whenever runChild has returned, the supervisor holds no open
\* handshake descriptor, of this spawn or of an earlier one; if the socketpair
\* was made, both of its descriptors have been closed, and no close ever hit
\* a descriptor that was not open.
C24_HandshakeFdsClosed ==
  /\ sv.child_fd # "badclose" /\ sv.parent_fd # "badclose"
  /\ pc = "idle" =>
       /\ sv.child_fd # "open" /\ sv.parent_fd # "open"
       /\ \A p \in PIDs : ~chan[p].parentEnd
  /\ pc = "idle" /\ mode = "runChild"
       /\ lastFail \notin {"limitConns", "socketpair"} =>
       sv = [child_fd |-> "closed", parent_fd |-> "closed"]

\* The second spawn has returned failure on the child's ERROR byte, with both
\* descriptors closed.
C24_Witness ==
  /\ pc = "idle"
  /\ mode = "runChild"
  /\ lastFail = "childerr"
  /\ nextPid = 3
  /\ sv = [child_fd |-> "closed", parent_fd |-> "closed"]

\* How often x occurs in seq.
Count(seq, x) == Cardinality({i \in 1..Len(seq) : seq[i] = x})

\* The number of controller groups the configuration sets limits for.
LimitGroups ==
  (IF conf.cgroup_mem_max # 0 \/ derivedSwapMax(conf) >= 0 THEN 1 ELSE 0)
  + (IF conf.cgroup_pids_max # 0 THEN 1 ELSE 0)
  + (IF conf.cgroup_cpu_ms_per_sec # 0 THEN 1 ELSE 0)

\* Child p may go on: DONE is on its way to it, or it has read it.
DoneSent(p) ==
  \/ InSeq(kSubprocDoneChar, chan[p].toChild)
  \/ chan[p].childRead = kSubprocDoneChar
  \/ child[p].pc \in {"containProc", "env", "applyPolicy", "exec", "running"}

\* NSJAIL.p is there with p in it and every configured limit file written
\* once, after p was put in; mkdir and the write to cgroup.procs were made
\* once per controller group.
CgroupReady(p) ==
  LET ops == cg[p].ops
  IN  /\ LimitGroups > 0 => cg[p].created
      /\ Count(ops, "mkdir") = LimitGroups
      /\ Count(ops, "cgroup.procs") = LimitGroups
      /\ Count(ops, "memory.max") = IF conf.cgroup_mem_max > 0 THEN 1 ELSE 0
      /\ Count(ops, "memory.swap.max")
           = IF derivedSwapMax(conf) >= 0 THEN 1 ELSE 0
      /\ Count(ops, "pids.max") = IF conf.cgroup_pids_max # 0 THEN 1 ELSE 0
      /\ Count(ops, "cpu.max")
           = IF conf.cgroup_cpu_ms_per_sec # 0 THEN 1 ELSE 0
      /\ \A i \in 1..Len(ops) :
           ops[i] \notin {"mkdir", "cgroup.procs"} =>
             i > 2 /\ ops[1] = "mkdir" /\ ops[2] = "cgroup.procs"

\* C25 as stated: a child that may go on has its cgroup ready, and none of
\* mkdir, the write to cgroup.procs and the limit files was done twice.
C25_EachInitStepOnce ==
  \A p \in PIDs :
    DoneSent(p) =>
      /\ CgroupReady(p)
      /\ Count(cg[p].ops, "mkdir") <= 1
      /\ Count(cg[p].ops, "cgroup.procs") <= 1

\* C25 as amended: the parent takes the steps network init, cgroup init, user
\* mapping, DONE in that order, DONE being written only by the last; when
\* cgroup init is over, and whenever a child may go on, NSJAIL.P is there with
\* P in it and every configured limit file written exactly once, while mkdir
\* and the write of P to cgroup.procs are made once per controller group
\* (memory, pids, cpu) that has a limit.
C25_DoneAfterInit ==
  /\ [](\A p \in PIDs : DoneSent(p) => CgroupReady(p))
  /\ [](pc \in {"initUser", "writeDone"} => CgroupReady(cur))
  /\ [][ /\ pc' = "initCgroup" /\ pc # pc' => pc = "initNet"
         /\ pc' = "initUser" /\ pc # pc' => pc = "initCgroup"
         /\ pc' = "writeDone" /\ pc # pc' => pc = "initUser"
         /\ \A p \in PIDs :
              Count(chan'[p].toChild, kSubprocDoneChar)
                > Count(chan[p].toChild, kSubprocDoneChar)
              => pc = "writeDone" /\ cur = p ]_vars

\* A child is applying containment in a jail with memory and pids limits;
\* it was put into NSJAIL.P twice.
C25_Witness ==
  \E p \in PIDs :
    /\ child[p].pc = "containProc"
    /\ LimitGroups = 2
    /\ Count(cg[p].ops, "cgroup.procs") = 2
    /\ CgroupReady(p)

\* The attempts of the current call that created a process.
Created == { i \in DOMAIN cloneSt.attempts : cloneSt.attempts[i].ret > 0 }

\* The parts of C26 that do not concern the reason of the retry: the order
\* of the paths, CLONE_VM, CLONE_NEWTIME, the single child, the return
\* values.
CloneOrder ==
  LET a == cloneSt.attempts
  IN  /\ Len(a) <= 3
      /\ Len(a) >= 1 => a[1].path = "clone3" /\ a[1].clearSighand
      /\ Len(a) >= 2 => a[2].path = "clone3" /\ ~a[2].clearSighand
      /\ Len(a) >= 3 =>
           /\ a[3].path = "clone"
           /\ a[2].ret = -1 /\ a[2].errno = "ENOSYS"
           /\ "CLONE_NEWTIME" \notin cloneSt.flags
      /\ "CLONE_VM" \in cloneSt.flags => a = << >>
      /\ Cardinality(Created) <= 1
      /\ \A i \in Created : i = Len(a)
      /\ cloneSt.at = "returned" =>
           /\ cloneSt.ret = IF Created = {} THEN -1 ELSE a[Len(a)].ret
           /\ cloneSt.ret = -1 \/ cloneSt.ret > 0
           /\ "CLONE_VM" \in cloneSt.flags => cloneSt.ret = -1
           /\ (Len(a) = 2 /\ a[2].errno = "ENOSYS"
                 /\ "CLONE_NEWTIME" \in cloneSt.flags) => cloneSt.ret = -1
           /\ (cloneSt.childRet # << >>) = (Created # {})
           /\ \A i \in DOMAIN cloneSt.childRet :
                cloneSt.childRet[i] = 0 /\ cloneSt.childRet[i] # cloneSt.ret

\* C26 as stated: cloneProc tries clone3 with CLONE_CLEAR_SIGHAND, then
\* clone3 without it only when the kernel rejected the flag (EINVAL), then
\* clone() only after ENOSYS and never with CLONE_NEWTIME; CLONE_VM fails
\* without an attempt; at most one process is created per call and it sees 0,
\* which the parent never sees.
C26_RetryOnlyWhenFlagRejected ==
  /\ CloneOrder
  /\ Len(cloneSt.attempts) >= 2 => cloneSt.attempts[1].errno = "EINVAL"

\* C26, amended: as above, but the second clone3 is attempted after every
\* failure of the first, whatever its errno.
C26_RetryAfterAnyFailure ==
  /\ CloneOrder
  /\ Len(cloneSt.attempts) >= 2 => cloneSt.attempts[1].ret = -1
  /\ (cloneSt.at = "returned" /\ "CLONE_VM" \notin cloneSt.flags
        /\ cloneSt.attempts[1].ret = -1) => Len(cloneSt.attempts) >= 2

\* A call whose first clone3 failed for a reason other than the flag, whose
\* second clone3 created the process.
C26_Witness ==
  /\ cloneSt.at = "returned"
  /\ Len(cloneSt.attempts) = 2
  /\ cloneSt.attempts[1].errno = "EAGAIN"
  /\ cloneSt.attempts[2].ret > 0
  /\ cloneSt.ret > 0
  /\ cloneSt.childRet = << 0 >>

\* A call that reached clone() and created the process there.
C26_LegacyReached ==
  /\ cloneSt.at = "returned"
  /\ Len(cloneSt.attempts) = 3
  /\ cloneSt.ret > 0

\* The loop of a drain pass is running: lines 434-446.
InDrainLoop ==
  mode = "drain" /\ pc \in {"peek", "seccomp", "wait4", "cgStats", "cgRmdir",
                            "removeProc"}

\* C27: every drain pass terminates.  The child the loop peeked is an
\* exited, unreaped child, and the wait4 that follows consumes its status; a
\* child whose status was consumed is never waitable again, so no child is
\* peeked twice in a pass; the loop ends only when no exited, unreaped child
\* exists, so none that had exited before the pass is waitable after it; and
\* the pass returns.
C27_DrainPassTerminates ==
  /\ [][ /\ (pc = "peek" /\ pc' \in {"seccomp", "wait4"}) =>
              /\ mode = "drain"
              /\ IsZombie(cur')
         /\ (InDrainLoop /\ pc = "wait4" /\ pc' # "wait4") =>
              /\ IsZombie(cur)
              /\ child'[cur].pc = "reaped"
         /\ \A p \in PIDs :
              child[p].pc = "reaped" => child'[p].pc = "reaped"
         /\ (pc = "peek" /\ pc' = "sweep") =>
              \A p \in PIDs : ~IsZombie(p) /\ child'[p].pc # "zombie"
       ]_vars
  /\ (InDrainLoop \/ (mode = "drain" /\ pc = "sweep")) ~> (pc = "idle")

\* A drain pass has returned, every child reaped and the registry empty.
C27_Witness ==
  /\ mode = "drain"
  /\ pc = "idle"
  /\ \A p \in PIDs : child[p].pc = "reaped"
  /\ pids = << >>

\* Child p is registered and the clock can reach its time limit.
WillTimeOut(p) ==
  /\ conf.tlimit > 0
  /\ p \in DOMAIN pids
  /\ pids[p].start + conf.tlimit <= MaxTime

\* C28: with tlimit > 0, when drain passes are repeated for ever and the
\* clock advances, every registered child eventually leaves the registry.
C28_RegisteredChildLeaves ==
  ([]<>(mode = "drain" /\ pc = "sweep") /\ <>[](now = MaxTime)) =>
    \A p \in PIDs : [](WillTimeOut(p) => <>(p \notin DOMAIN pids))

\* A drain pass is about to reap a child that an earlier timeout sweep killed.
C28_Witness ==
  /\ conf.tlimit > 0
  /\ mode = "drain"
  /\ pc = "wait4"
  /\ cur \in DOMAIN pids
  /\ now - pids[cur].start >= conf.tlimit
  /\ sigs[cur] = << SIGCONT, SIGKILL >>
  /\ child[cur].status = Signaled(SIGKILL)

\* Drain passes recur for ever, and no child stays for ever in a step of
\* newProc before exec.
DrainsRecur ==
  /\ []<>(mode = "drain" /\ pc = "sweep")
  /\ \A p \in PIDs : []<>(child[p].pc \notin BootPcs)

\* Child p has been reaped, its record removed, its accounting descriptor
\* closed.
ReapedAndRemoved(p) ==
  /\ child[p].pc = "reaped"
  /\ p \notin DOMAIN pids
  /\ fd[p] = "closed"

\* C29 (as stated): when runChild returns failure after clone, the child's
\* record is in the registry, the child never execs the target, and under
\* recurring drain passes the child is eventually reaped, its record
\* removed, its accounting descriptor closed and its cgroup torn down
\* (removeCgroup run on the directory that per-child init created).
C29_FailedSpawnCleanedUp ==
  DrainsRecur =>
    \A p \in PIDs :
      []((FailedAfterClone /\ cur = p) =>
           /\ p \in DOMAIN pids
           /\ [](child[p].pc # "running")
           /\ <>(ReapedAndRemoved(p) /\ (cg[p].created => cg[p].rmdir)))

\* The same with the teardown left to finishFromParent's own test of the
\* limits: this much the code does.
C29_FailedSpawnReaped ==
  DrainsRecur =>
    \A p \in PIDs :
      []((FailedAfterClone /\ cur = p) =>
           /\ p \in DOMAIN pids
           /\ [](child[p].pc # "running")
           /\ <>(ReapedAndRemoved(p)
                   /\ (finishFromParent(conf) => cg[p].rmdir)))

\* A failed spawn whose child was reaped by a later drain pass, its cgroup
\* directory left behind.
C29_CgroupLeftBehind ==
  \E p \in PIDs :
    /\ mode = "drain"
    /\ pc = "idle"
    /\ ReapedAndRemoved(p)
    /\ status = Exited(FatalExitCode)
    /\ cg[p].created
    /\ ~cg[p].rmdir

\* C30 (as stated): when setup has returned success, every controller the
\* configuration needs is enabled in the root's cgroup.subtree_control,
\* whatever the file listed before, cpuset without cpu included.
C30_SuccessMeansEnabled ==
  (setupSt.pc = "idle" /\ setupSt.ret = "ok") =>
    \A i \in 1..Len(ConfNeeds) : ConfNeeds[i] \in subtree

\* Setup has returned success without a write, on a root that lists cpuset
\* and not cpu, for a configuration with a CPU quota.
C30_CpusetTakenForCpu ==
  /\ setupSt.pc = "idle"
  /\ setupSt.ret = "ok"
  /\ SetupLog = << >>
  /\ conf.cgroup_cpu_ms_per_sec # 0
  /\ "cpuset" \in subtree
  /\ "cpu" \notin subtree

====
